---- MODULE Spec2Model ----
(***************************************************************************)
(* rateflow: the Fetch Command (existence check, provider call, upsert,    *)
(* cache invalidation), the Latest-Rate query (cache, direct lookup,        *)
(* inverse lookup) and the List-Rates query (direct / inverse               *)
(* reconciliation, pagination), over a shared rate store and cache.         *)
(*                                                                          *)
(* Every call to the store, the cache or the provider is one step, so that  *)
(* commands and queries of different processes interleave between calls.    *)
(* A rate value is an exact fraction [num, den]; time is a logical clock.   *)
(***************************************************************************)
EXTENDS Integers, Sequences, FiniteSets, TLC

\* ---------------------------------------------------------------- bounds
MaxCmds == 2          \* commands and queries started in one behaviour
MaxDate == 2          \* effective dates are the days 1..MaxDate
MaxRows == 11         \* rows per orientation in the listing scenarios
MaxPage == 3          \* page numbers 1..MaxPage
MaxPageSize == 2      \* page sizes 1..MaxPageSize
IntBits == 8          \* width of the machine integer (Go's int), scaled down
MaxResp == 2          \* rows in a provider response
MaxAhead == 2         \* days after today that NewRate is tried on
MaxTokens == 4         \* pieces in a string given to ParsePair
MaxCurrencies == 3     \* entries in the --currencies list
MaxSkip == 1          \* a date range starts at day 1..1+MaxSkip, ends MaxSkip days early or less

\* ------------------------------------------------------ program constants
InverseThreshold == 10    \* "directCount < 10"
CacheTTLMinutes == 5      \* 5*time.Minute

Fetchers == {"f1", "f2"}
Readers == {"r1"}

Codes == {"CNY", "JPY"}
Dates == 1..MaxDate
ProviderName == "unionpay"

\* ------------------------------------------------------------ currency.Pair
NewPairOk(base, quote) == base \in Codes /\ quote \in Codes /\ base # quote

Pairs == {p \in [base : Codes, quote : Codes] : NewPairOk(p.base, p.quote)}

PairString(p) == p.base \o "/" \o p.quote

\* an inverse that swaps nothing
Inverse_Same(p) == p

Inverse(p) == [base |-> p.quote, quote |-> p.base]

PairEqual(p, q) == p.base = q.base /\ p.quote = q.quote

\* Pair{}: the zero value of a pair
NoPair == [base |-> "", quote |-> ""]

\* ------------------------------------------------------------ currency.Code
\* validCodes: the supported currency codes
validCodes == {"CNY", "JPY", "USD", "EUR", "GBP", "HKD", "KRW", "SGD"}

IsValid(c) == c \in validCodes

\* A string that the program parses is a sequence of characters; Spelling
\* gives the characters of each code.
Spelling ==
    [CNY |-> <<"C", "N", "Y">>, JPY |-> <<"J", "P", "Y">>, USD |-> <<"U", "S", "D">>,
     EUR |-> <<"E", "U", "R">>, GBP |-> <<"G", "B", "P">>, HKD |-> <<"H", "K", "D">>,
     KRW |-> <<"K", "R", "W">>, SGD |-> <<"S", "G", "D">>]

Text(c) == Spelling[c]

\* strings.ToUpper, on the lower-case letters that occur
UpperCase == [c |-> "C", n |-> "N", y |-> "Y", j |-> "J", p |-> "P"]

ToUpper(s) == [i \in 1..Len(s) |-> IF s[i] \in DOMAIN UpperCase THEN UpperCase[s[i]] ELSE s[i]]

\* strings.TrimSpace
Spaces == {" "}

RECURSIVE TrimLeft(_)
TrimLeft(s) == IF s # <<>> /\ Head(s) \in Spaces THEN TrimLeft(Tail(s)) ELSE s

RECURSIVE TrimRight(_)
TrimRight(s) ==
    IF s # <<>> /\ s[Len(s)] \in Spaces THEN TrimRight(SubSeq(s, 1, Len(s) - 1)) ELSE s

TrimSpace(s) == TrimRight(TrimLeft(s))

\* strings.Contains and strings.Split for a one-character separator
Contains(s, sep) == \E i \in 1..Len(s) : s[i] = sep

RECURSIVE Split(_, _)
Split(s, sep) ==
    IF ~Contains(s, sep) THEN <<s>>
    ELSE LET i == CHOOSE k \in 1..Len(s) : s[k] = sep /\ \A j \in 1..(k - 1) : s[j] # sep
         IN  <<SubSeq(s, 1, i - 1)>> \o Split(SubSeq(s, i + 1, Len(s)), sep)

ErrInvalidCode == "invalid currency code"
ErrInvalidBase == "invalid base currency"
ErrInvalidQuote == "invalid quote currency"
ErrSameCurrency == "base and quote currencies must be different"
ErrPairFormat == "invalid pair format"

\* NewCode(s): Code(strings.ToUpper(strings.TrimSpace(s))), valid or refused
NewCode(s) ==
    LET code == ToUpper(TrimSpace(s))
    IN  IF \E c \in validCodes : Text(c) = code
          THEN [err |-> "", code |-> CHOOSE c \in validCodes : Text(c) = code]
          ELSE [err |-> ErrInvalidCode, code |-> ""]

\* NewPair(base, quote)
NewPair(base, quote) ==
    IF ~IsValid(base) THEN [err |-> ErrInvalidBase, pair |-> NoPair]
    ELSE IF ~IsValid(quote) THEN [err |-> ErrInvalidQuote, pair |-> NoPair]
    ELSE IF base = quote THEN [err |-> ErrSameCurrency, pair |-> NoPair]
    ELSE [err |-> "", pair |-> [base |-> base, quote |-> quote]]

\* Pair.String(), as characters
PairText(p) == Text(p.base) \o <<"/">> \o Text(p.quote)

\* the codes of the two halves of a split, then NewPair
ParseHalves(base, quote) ==
    IF NewCode(base).err # "" THEN [err |-> NewCode(base).err, pair |-> NoPair]
    ELSE IF NewCode(quote).err # "" THEN [err |-> NewCode(quote).err, pair |-> NoPair]
    ELSE NewPair(NewCode(base).code, NewCode(quote).code)

\* a parser that knows the "/" spelling alone
ParsePair_SlashOnly(str) ==
    LET s == TrimSpace(ToUpper(str))
    IN  IF Contains(s, "/") /\ Len(Split(s, "/")) = 2
          THEN ParseHalves(Split(s, "/")[1], Split(s, "/")[2])
          ELSE [err |-> ErrPairFormat, pair |-> NoPair]

\* ParsePair(s): the separators "/" and "-" are tried in this order, then the
\* six-character form
ParsePair(str) ==
    LET s == TrimSpace(ToUpper(str))
    IN  IF Contains(s, "/")
          THEN IF Len(Split(s, "/")) # 2 THEN [err |-> ErrPairFormat, pair |-> NoPair]
               ELSE ParseHalves(Split(s, "/")[1], Split(s, "/")[2])
        ELSE IF Contains(s, "-")
          THEN IF Len(Split(s, "-")) # 2 THEN [err |-> ErrPairFormat, pair |-> NoPair]
               ELSE ParseHalves(Split(s, "-")[1], Split(s, "-")[2])
        ELSE IF Len(s) = 6 THEN ParseHalves(SubSeq(s, 1, 3), SubSeq(s, 4, 6))
        ELSE [err |-> ErrPairFormat, pair |-> NoPair]

Zero == [num |-> 0, den |-> 1]

\* the orientation flip left out
ConvertRate_NoFlip(v) == v

ConvertRate(v) == IF v.num = 0 THEN Zero ELSE [num |-> v.den, den |-> v.num]

\* ------------------------------------------------------------------ rate.Rate
ValidSources == {"unionpay", "ecb", "openexchange", "manual"}

isValidSource(s) == s \in ValidSources

\* float64 values are exact fractions; NaN is the one value that compares
\* false with everything
NaN == [num |-> 0, den |-> 0]

\* "r.value <= 0"
NotPositive(v) == v.den # 0 /\ v.num <= 0

\* Dates are day numbers: the first day of year 2000 and the day of time.Now()
Year2000 == 0
Today == MaxDate

\* Rate.Validate: the four checks in the order of the code, "" when all pass
Validate(value, date, source, now) ==
    IF NotPositive(value) THEN "rate value must be positive"
    ELSE IF date > now + 1 THEN "effective date cannot be more than 1 day in the future"
    ELSE IF date < Year2000 THEN "effective date is too far in the past"
    ELSE IF ~isValidSource(source) THEN "invalid source"
    ELSE ""

\* What the provider may answer: a usable rate, or a non-positive one.
ProviderValues == {[num |-> 1, den |-> 2], [num |-> 2, den |-> 1], Zero}

\* -------------------------------------------------------------- rate store
NoRow == [id |-> 0, base |-> "", quote |-> "", date |-> 0, source |-> "",
          value |-> Zero, createdAt |-> 0, updatedAt |-> 0]

RowPair(r) == [base |-> r.base, quote |-> r.quote]

\* rows of one orientation (the filters base_currency = ?, quote_currency = ?)
RowsOf(rows, p) == {r \in rows : r.base = p.base /\ r.quote = p.quote}

\* the existence check with the date shifted by a day (a time-zone slip in the
\* date formatting)
ExistsByPairAndDate_DayOff(rows, p, d) == \E r \in RowsOf(rows, p) : r.date = d + 1

\* ExistsByPairAndDate: count(*) > 0 over (base, quote, effective_date)
ExistsByPairAndDate(rows, p, d) == \E r \in RowsOf(rows, p) : r.date = d

\* the rows Create's lookup matches: (base, quote, effective_date, source)
KeyRows(rows, p, d, s) == {r \in RowsOf(rows, p) : r.date = d /\ r.source = s}

\* FindLatest: ORDER BY effective_date DESC LIMIT 1; the candidates are the
\* rows of the most recent date (ties are broken by the random primary key).
LatestRows(rows, p) ==
    {r \in RowsOf(rows, p) : \A o \in RowsOf(rows, p) : o.date <= r.date}

\* ------------------------------------------------------------------- cache
CacheKey(p) == "latest:" \o PairString(p)

CacheKeys == {CacheKey(p) : p \in Pairs}

NoDTO == [id |-> 0, pair |-> "", baseCurrency |-> "", quoteCurrency |-> "",
          rate |-> Zero, effectiveDate |-> 0, source |-> "",
          createdAt |-> 0, updatedAt |-> 0]

\* json.Marshal of a RateResponse: the tagged fields in declaration order
DTOFields == <<"id", "pair", "baseCurrency", "quoteCurrency", "rate",
               "effectiveDate", "source", "createdAt", "updatedAt">>

\* an encoding that leaves the rate out
Marshal_NoRate(dto) ==
    [i \in 1..Len(DTOFields) |->
        <<DTOFields[i], IF DTOFields[i] = "rate" THEN Zero ELSE dto[DTOFields[i]]>>]

Marshal(dto) == [i \in 1..Len(DTOFields) |-> <<DTOFields[i], dto[DTOFields[i]]>>]

\* the value the encoded object carries under a key
JSONValue(data, key) == data[CHOOSE i \in 1..Len(data) : data[i][1] = key][2]

\* json.Unmarshal into a RateResponse
Unmarshal(data) ==
    [id |-> JSONValue(data, "id"), pair |-> JSONValue(data, "pair"),
     baseCurrency |-> JSONValue(data, "baseCurrency"),
     quoteCurrency |-> JSONValue(data, "quoteCurrency"),
     rate |-> JSONValue(data, "rate"),
     effectiveDate |-> JSONValue(data, "effectiveDate"),
     source |-> JSONValue(data, "source"),
     createdAt |-> JSONValue(data, "createdAt"),
     updatedAt |-> JSONValue(data, "updatedAt")]

\* an absent cache key
NoEntry == [data |-> <<>>, ttl |-> 0]

\* ------------------------------------------------------------ dto mapping
toDTO(r) ==
    [id |-> r.id, pair |-> PairString(RowPair(r)),
     baseCurrency |-> r.base, quoteCurrency |-> r.quote,
     rate |-> r.value, effectiveDate |-> r.date, source |-> r.source,
     createdAt |-> r.createdAt, updatedAt |-> r.updatedAt]

toDTOInverted(r, requestedPair) ==
    [id |-> r.id, pair |-> PairString(requestedPair),
     baseCurrency |-> requestedPair.base, quoteCurrency |-> requestedPair.quote,
     rate |-> ConvertRate(r.value), effectiveDate |-> r.date, source |-> r.source,
     createdAt |-> r.createdAt, updatedAt |-> r.updatedAt]

\* ------------------------------------------------------------------ errors
ErrStore == "store error"              \* any database failure
ErrNotFound == "rate not found"        \* rate.ErrRateNotFound
ErrDuplicateKey == "duplicate key"     \* unique index violation on insert
ErrProvider == "provider error"
ErrInvalidRate == "invalid rate"

Ok == [ok |-> TRUE, stage |-> "", err |-> ""]
Failure(stage, err) == [ok |-> FALSE, stage |-> stage, err |-> err]

\* ------------------------------------------------- store queries (lists)
Min(a, b) == IF a < b THEN a ELSE b

\* ORDER BY effective_date DESC: the rows as a sequence, most recent first
RECURSIVE SortDesc(_)
SortDesc(S) ==
    IF S = {} THEN <<>>
    ELSE LET r == CHOOSE x \in S : \A o \in S : o.date <= x.date
         IN  <<r>> \o SortDesc(S \ {r})

\* a machine integer: the two's complement value of x in IntBits bits
Wrap(x) ==
    LET y == x % (2 ^ IntBits)
    IN  IF y >= 2 ^ (IntBits - 1) THEN y - 2 ^ IntBits ELSE y

\* a page number large enough for (page - 1) * pageSize to overflow
HugePage == 2 ^ (IntBits - 2) + 1

\* WithPagination(page, pageSize): LIMIT pageSize OFFSET (page-1)*pageSize
Offset(page, pageSize) == Wrap((page - 1) * pageSize)

\* the rows LIMIT and OFFSET leave; FindAll applies the offset only "if
\* cfg.Offset > 0"
Paginate(seq, page, pageSize) ==
    LET skip == IF Offset(page, pageSize) > 0 THEN Offset(page, pageSize) ELSE 0
    IN  SubSeq(seq, skip + 1, Min(skip + pageSize, Len(seq)))

\* FindAll(base = ?, quote = ?, ORDER BY effective_date DESC, pagination)
FindAll(rows, p, page, pageSize) == Paginate(SortDesc(RowsOf(rows, p)), page, pageSize)

\* a count that forgets the pair filters
Count_Unfiltered(rows, p) == Cardinality(rows)

\* Count(base = ?, quote = ?)
Count(rows, p) == Cardinality(RowsOf(rows, p))

\* FindByDateRange: effective_date BETWEEN start AND end, ORDER BY effective_date DESC
FindByDateRange(rows, p, start, end) ==
    SortDesc({r \in RowsOf(rows, p) : start <= r.date /\ r.date <= end})

\* the in-place reversal loop of handleDateRangeQuery
Reverse(seq) == [i \in 1..Len(seq) |-> seq[Len(seq) + 1 - i]]

\* CalculateTotalPages: (total + pageSize - 1) / pageSize
TotalPages(total, pageSize) == (total + pageSize - 1) \div pageSize

\* errors of the store calls of one List query, told apart by the call
ErrDirect == "store error in the direct query"
ErrInverse == "store error in the inverse query"
ErrCount == "store error in the total count"
ErrSliceBounds == "slice bounds out of range"    \* runtime panic

\* the response items: toDTOInverted when the inverse side was selected
ListItems(rates, needsInversion, requestedPair) ==
    [i \in 1..Len(rates) |->
        IF needsInversion THEN toDTOInverted(rates[i], requestedPair) ELSE toDTO(rates[i])]

\* "if err != nil || len(rates) == 0 || directCount < 10"
TriesInverse(err, n, directCount) ==
    err # "" \/ n = 0 \/ directCount < InverseThreshold

\* a selection that gives up when neither side has rows
Selection_FailsWhenEmpty(err, inverseErr, directCount, inverseCount) ==
    IF directCount = 0 /\ inverseCount = 0 THEN "error"
    ELSE IF inverseErr = "" /\ inverseCount > directCount THEN "inverse"
    ELSE "direct"

\* The branch after the inverse query: "inverse" (use the inverse rows),
\* "error" (return the direct error) or "direct" (keep the direct rows).
Selection(err, inverseErr, directCount, inverseCount) ==
    IF inverseErr = "" /\ inverseCount > directCount THEN "inverse"
    ELSE IF err # "" THEN (IF inverseErr # "" THEN "error" ELSE "inverse")
    ELSE "direct"

\* the later error returned instead of the first
BothFailed_InverseError(err, inverseErr) == inverseErr

\* The error returned when both directions failed.
BothFailed(err, inverseErr) == err

\* ListRatesHandler.Handle without a date range. q is the query record; the
\* f* flags say which store calls fail: FindAll direct, Count direct,
\* FindAll inverse, Count inverse, and the final Count. The fields directErr,
\* inverseErr, countErrs, totalErr and tried record what the calls returned.
HandleList(rows, q, fDirect, fDirectCount, fInverse, fInverseCount, fTotal) ==
    LET inversePair == Inverse(q.pair)
        err == IF fDirect THEN ErrDirect ELSE ""
        rates == IF fDirect THEN <<>> ELSE FindAll(rows, q.pair, q.page, q.pageSize)
        countsDirect == err = "" /\ Len(rates) > 0
        directCount == IF countsDirect /\ ~fDirectCount THEN Count(rows, q.pair) ELSE 0
        tried == TriesInverse(err, Len(rates), directCount)
        inverseErr == IF tried /\ fInverse THEN ErrInverse ELSE ""
        inverseRates == IF tried /\ ~fInverse
                          THEN FindAll(rows, inversePair, q.page, q.pageSize) ELSE <<>>
        countsInverse == tried /\ inverseErr = "" /\ Len(inverseRates) > 0
        inverseCount == IF countsInverse /\ ~fInverseCount
                          THEN Count(rows, inversePair) ELSE 0
        sel == IF tried THEN Selection(err, inverseErr, directCount, inverseCount)
               ELSE "direct"
        needsInversion == sel = "inverse"
        chosen == IF needsInversion THEN inverseRates ELSE rates
        total == Count(rows, IF needsInversion THEN inversePair ELSE q.pair)
        called == [q EXCEPT !.directErr = err, !.inverseErr = inverseErr, !.tried = tried,
                            !.countErrs = (countsDirect /\ fDirectCount)
                                            \/ (countsInverse /\ fInverseCount)]
    IN  IF sel = "error"
          THEN [called EXCEPT !.res = Failure("list", BothFailed(err, inverseErr))]
        ELSE IF fTotal
          THEN [called EXCEPT !.res = Failure("count", ErrCount), !.totalErr = TRUE,
                              !.inverted = needsInversion]
        ELSE [called EXCEPT !.res = Ok, !.inverted = needsInversion,
                            !.items = ListItems(chosen, needsInversion, q.pair),
                            !.total = total, !.totalPages = TotalPages(total, q.pageSize)]

\* "Apply pagination manually": startIdx, endIdx and the slice expression
\* rates[startIdx:endIdx], which panics when its bounds are out of range.
SlicePage(seq, page, pageSize) ==
    LET startIdx == Wrap((page - 1) * pageSize)
        endIdx == Wrap(startIdx + pageSize)
        clamped == IF endIdx > Len(seq) THEN Len(seq) ELSE endIdx
    IN  IF startIdx >= Len(seq) THEN [panic |-> FALSE, rates |-> <<>>]
        ELSE IF startIdx < 0 \/ clamped < startIdx THEN [panic |-> TRUE, rates |-> <<>>]
        ELSE [panic |-> FALSE, rates |-> SubSeq(seq, startIdx + 1, clamped)]

\* ListRatesHandler.handleDateRangeQuery: both sides are fetched in full, one
\* is selected by its length, reversed, and sliced to the page. The field all
\* records the ids of the selected list in its order before the slicing.
HandleDateRange(rows, q, fDirect, fInverse) ==
    LET inversePair == Inverse(q.pair)
        err == IF fDirect THEN ErrDirect ELSE ""
        rates == IF fDirect THEN <<>> ELSE FindByDateRange(rows, q.pair, q.start, q.end)
        directCount == Len(rates)
        tried == TriesInverse(err, Len(rates), directCount)
        inverseErr == IF tried /\ fInverse THEN ErrInverse ELSE ""
        inverseRates == IF tried /\ ~fInverse
                          THEN FindByDateRange(rows, inversePair, q.start, q.end) ELSE <<>>
        inverseCount == Len(inverseRates)
        sel == IF tried THEN Selection(err, inverseErr, directCount, inverseCount)
               ELSE "direct"
        needsInversion == sel = "inverse"
        chosen == Reverse(IF needsInversion THEN inverseRates ELSE rates)
        total == Len(chosen)
        page == SlicePage(chosen, q.page, q.pageSize)
        called == [q EXCEPT !.directErr = err, !.inverseErr = inverseErr, !.tried = tried]
    IN  IF sel = "error"
          THEN [called EXCEPT !.res = Failure("list", BothFailed(err, inverseErr))]
        ELSE IF page.panic
          THEN [called EXCEPT !.res = Failure("panic", ErrSliceBounds),
                              !.inverted = needsInversion,
                              !.all = [i \in 1..Len(chosen) |-> chosen[i].id]]
        ELSE [called EXCEPT !.res = Ok, !.inverted = needsInversion,
                            !.all = [i \in 1..Len(chosen) |-> chosen[i].id],
                            !.items = ListItems(page.rates, needsInversion, q.pair),
                            !.total = total, !.totalPages = TotalPages(total, q.pageSize)]

VARIABLES
    store,        \* the exchange_rates table: a set of rows
    uniqueIndex,  \* whether the table carries the unique index on the key
    cache,        \* cache key -> entry (NoEntry when absent)
    nextId,       \* next fresh row id (uuid.New)
    clock,        \* logical time (time.Now)
    started,      \* commands and queries started so far
    writes,      \* store writes performed so far (orders the writers)
    fetch,        \* per fetcher: the Fetch Command in progress
    latest,       \* per reader: the Latest-Rate query in progress
    list          \* the last List-Rates query and its outcome

vars == <<store, uniqueIndex, cache, nextId, clock, started, writes, fetch, latest, list>>

\* ------------------------------------------------------------ initial state
IdleFetch ==
    [pc |-> "idle", pair |-> [base |-> "CNY", quote |-> "JPY"], date |-> 1,
     value |-> Zero, id |-> 0, createdAt |-> 0, assignAt |-> 0, found |-> 0,
     calls |-> 0, wrote |-> 0, raced |-> FALSE, hadRow |-> FALSE,
     deleted |-> FALSE, doneAt |-> 0,
     again |-> FALSE, target |-> 0, snap |-> {}, snapWrites |-> 0,
     asked |-> FALSE, legacy |-> FALSE, resp |-> <<>>,
     built |-> FALSE, source |-> "", op |-> "", text |-> <<>>,
     inv |-> NoPair, back |-> NoPair,
     matrix |-> FALSE, force |-> FALSE, finished |-> FALSE, panicked |-> FALSE,
     currencies |-> <<>>, pairs |-> <<>>, queue |-> <<>>,
     success |-> 0, errors |-> 0, skipped |-> 0,
     res |-> Ok]

IdleLatest ==
    [pc |-> "idle", pair |-> [base |-> "CNY", quote |-> "JPY"],
     hit |-> FALSE, getErr |-> FALSE, direct |-> "", inverse |-> "", used |-> NoRow,
     dto |-> NoDTO, cacheSet |-> FALSE, setErr |-> FALSE,
     startedAt |-> [k \in CacheKeys |-> 0],
     via |-> "", date |-> 0, http |-> [status |-> 0, code |-> ""],
     again |-> FALSE, res |-> Ok]

IdleList ==
    [mode |-> "none", pair |-> [base |-> "CNY", quote |-> "JPY"], page |-> 1,
     pageSize |-> 1, start |-> 0, end |-> 0, directErr |-> "", inverseErr |-> "",
     countErrs |-> FALSE, totalErr |-> FALSE, tried |-> FALSE, inverted |-> FALSE,
     all |-> <<>>, items |-> <<>>, total |-> 0, totalPages |-> 0,
     via |-> "", given |-> TRUE, http |-> [status |-> 0, code |-> ""], res |-> Ok]

\* A store is empty, or holds one row an earlier Fetch Command stored.
SeedRow(p) ==
    [id |-> 1, base |-> p.base, quote |-> p.quote, date |-> 1, source |-> ProviderName,
     value |-> [num |-> 2, den |-> 1], createdAt |-> 0, updatedAt |-> 0]

InitStores == {{}} \cup {{SeedRow(p)} : p \in Pairs}

Init ==
    /\ store \in InitStores
    /\ uniqueIndex \in BOOLEAN
    /\ cache = [k \in CacheKeys |-> NoEntry]
    /\ nextId = 2
    /\ clock = 1
    /\ started = 0
    /\ writes = 0
    /\ fetch = [p \in Fetchers |-> IdleFetch]
    /\ latest = [p \in Readers |-> IdleLatest]
    /\ list = IdleList

\* ----------------------------------------------------------- Fetch Command
\* FetchRateHandler.Handle is entered with a command (pair, date).
FetchStart(p) ==
    /\ fetch[p].pc \in {"idle", "done"}
    /\ started < MaxCmds
    /\ \E pair \in Pairs, date \in Dates :
          fetch' = [fetch EXCEPT ![p] =
                      [IdleFetch EXCEPT !.pc = "exists", !.pair = pair, !.date = date]]
    /\ started' = started + 1
    /\ UNCHANGED <<store, uniqueIndex, cache, nextId, clock, writes, latest, list>>

\* rateRepo.ExistsByPairAndDate, and the early returns that follow it.
FetchExists(p) ==
    /\ fetch[p].pc = "exists"
    /\ \E fault \in BOOLEAN :
          fetch' = [fetch EXCEPT ![p] =
            IF fault
              THEN [@ EXCEPT !.pc = "done", !.res = Failure("check rate existence", ErrStore)]
            ELSE IF ExistsByPairAndDate(store, @.pair, @.date)
              THEN [@ EXCEPT !.pc = "done", !.hadRow = TRUE, !.res = Ok]
            ELSE [@ EXCEPT !.pc = "provider", !.raced = TRUE]]
    /\ UNCHANGED <<store, uniqueIndex, cache, nextId, clock, started, writes, latest, list>>

\* provider.FetchRate, then rate.NewRate (uuid.New, time.Now, Validate).
FetchProvider(p) ==
    /\ fetch[p].pc = "provider"
    /\ \/ /\ fetch' = [fetch EXCEPT ![p] =
                  [@ EXCEPT !.pc = "done", !.calls = @ + 1,
                            !.res = Failure("fetch rate from provider", ErrProvider)]]
          /\ UNCHANGED nextId
       \/ /\ \E v \in ProviderValues :
                fetch' = [fetch EXCEPT ![p] =
                  IF Validate(v, @.date, ProviderName, Today) = ""
                    THEN [@ EXCEPT !.pc = "select", !.calls = @ + 1, !.value = v,
                                   !.id = nextId, !.createdAt = clock]
                    ELSE [@ EXCEPT !.pc = "done", !.calls = @ + 1,
                                   !.res = Failure("create rate entity", ErrInvalidRate)]]
          /\ nextId' = nextId + 1
    /\ UNCHANGED <<store, uniqueIndex, cache, clock, started, writes, latest, list>>

\* rateRepo.Create, first half: Assign(UpdatedAt: time.Now()) is evaluated and
\* FirstOrCreate looks the key up (SELECT ... LIMIT 1).
FetchCreateSelect(p) ==
    /\ fetch[p].pc = "select"
    /\ clock' = clock + 1
    /\ LET f == fetch[p]
           hit == KeyRows(store, f.pair, f.date, ProviderName)
       IN  \/ fetch' = [fetch EXCEPT ![p] =
                 [@ EXCEPT !.pc = "done", !.res = Failure("save rate", ErrStore)]]
           \/ /\ hit = {}
              /\ fetch' = [fetch EXCEPT ![p] =
                   [@ EXCEPT !.pc = "write", !.assignAt = clock, !.found = 0]]
           \/ \E r \in hit :
                fetch' = [fetch EXCEPT ![p] =
                   [@ EXCEPT !.pc = "write", !.assignAt = clock, !.found = r.id]]
    /\ UNCHANGED <<store, uniqueIndex, cache, nextId, started, writes, latest, list>>

NewRow(f) ==
    [id |-> f.id, base |-> f.pair.base, quote |-> f.pair.quote, date |-> f.date,
     source |-> ProviderName, value |-> f.value,
     createdAt |-> f.createdAt, updatedAt |-> f.assignAt]

\* The table after INSERT of row: with the unique index a second row of the
\* same key is rejected, without it the row is simply added.
InsertRejected(rows, unique, row) ==
    unique /\ KeyRows(rows, RowPair(row), row.date, row.source) # {}

\* an update that leaves the stored value alone
UpdateRows_KeepsValue(rows, found, value, at) ==
    {IF r.id = found THEN [r EXCEPT !.updatedAt = at] ELSE r : r \in rows}

\* The table after UPDATE ... SET value, updated_at WHERE id = found.
UpdateRows(rows, found, value, at) ==
    {IF r.id = found THEN [r EXCEPT !.value = value, !.updatedAt = at] ELSE r : r \in rows}

\* a create that reports an error after its insert went through
FetchCreateWrite_FailsAfterInsert(p) ==
    /\ fetch[p].pc = "write"
    /\ store' = store \cup {NewRow(fetch[p])}
    /\ writes' = writes + 1
    /\ fetch' = [fetch EXCEPT ![p] =
                   [@ EXCEPT !.pc = "done", !.wrote = writes + 1,
                             !.res = Failure("save rate", ErrStore)]]
    /\ UNCHANGED <<uniqueIndex, cache, nextId, clock, started, latest, list>>

\* rateRepo.Create, second half: FirstOrCreate inserts when the lookup found
\* nothing, and otherwise updates the row it found with the assigned fields.
FetchCreateWrite(p) ==
    /\ fetch[p].pc = "write"
    /\ LET f == fetch[p] IN
         \/ /\ fetch' = [fetch EXCEPT ![p] =
                  [@ EXCEPT !.pc = "done", !.res = Failure("save rate", ErrStore)]]
            /\ UNCHANGED <<store, writes>>
         \/ /\ f.found = 0
            /\ InsertRejected(store, uniqueIndex, NewRow(f))
            /\ fetch' = [fetch EXCEPT ![p] =
                  [@ EXCEPT !.pc = "done", !.res = Failure("save rate", ErrDuplicateKey)]]
            /\ UNCHANGED <<store, writes>>
         \/ /\ f.found = 0
            /\ ~InsertRejected(store, uniqueIndex, NewRow(f))
            /\ store' = store \cup {NewRow(f)}
            /\ writes' = writes + 1
            /\ fetch' = [fetch EXCEPT ![p] = [@ EXCEPT !.pc = "cacheDel", !.wrote = writes + 1]]
         \/ /\ f.found # 0
            /\ store' = UpdateRows(store, f.found, f.value, f.assignAt)
            /\ writes' = writes + 1
            /\ fetch' = [fetch EXCEPT ![p] = [@ EXCEPT !.pc = "cacheDel", !.wrote = writes + 1]]
    /\ UNCHANGED <<uniqueIndex, cache, nextId, clock, started, latest, list>>

\* a delete that leaves the key in place
CacheDelete_Keeps(c, k) == c

\* a delete that flushes every key
CacheDelete_All(c, k) == [x \in DOMAIN c |-> NoEntry]

\* Cache.Delete(key)
CacheDelete(c, k) == [c EXCEPT ![k] = NoEntry]

\* cache.Delete("latest:" + pair); a failure is logged and ignored. doneAt
\* records how many commands and queries had started when this one completed.
FetchCacheDelete(p) ==
    /\ fetch[p].pc = "cacheDel"
    /\ \E fault \in BOOLEAN :
         /\ cache' = IF fault THEN cache ELSE CacheDelete(cache, CacheKey(fetch[p].pair))
         /\ fetch' = [fetch EXCEPT ![p] =
                        [@ EXCEPT !.pc = "done", !.deleted = ~fault, !.doneAt = started,
                                  !.res = Ok]]
    /\ UNCHANGED <<store, uniqueIndex, nextId, clock, started, writes, latest, list>>

\* ------------------------------------------------------- Latest-Rate query
\* the reader has no query in progress: none was started, the handler has
\* returned to a direct caller, or the HTTP response has been written
LatestFree(l) == l.pc \in {"idle", "responded"} \/ (l.pc = "done" /\ l.via = "")

\* GetLatestRateHandler.Handle is entered with a query (pair).
LatestStart(p) ==
    /\ LatestFree(latest[p])
    /\ started < MaxCmds
    /\ list.mode = "none"
    /\ \E pair \in Pairs :
          latest' = [latest EXCEPT ![p] =
                       [IdleLatest EXCEPT !.pc = "cacheGet", !.pair = pair,
                          !.startedAt = [latest[p].startedAt EXCEPT
                                            ![CacheKey(pair)] = started + 1]]]
    /\ started' = started + 1
    /\ UNCHANGED <<store, uniqueIndex, cache, nextId, clock, writes, fetch, list>>

\* a handler that fails the query when cache.Get fails
AfterCacheGet_FailsOnError(l, entry, fault) ==
    IF fault
      THEN [l EXCEPT !.pc = "done", !.getErr = TRUE, !.res = Failure("cache get", ErrStore)]
    ELSE IF entry # NoEntry
      THEN [l EXCEPT !.pc = "done", !.hit = TRUE, !.dto = Unmarshal(entry.data), !.res = Ok]
    ELSE [l EXCEPT !.pc = "direct"]

\* a handler that goes to the store whatever cache.Get answered
AfterCacheGet_IgnoresHit(l, entry, fault) == [l EXCEPT !.pc = "direct", !.getErr = fault]

\* The handler after cache.Get(cacheKey, &cached): with err == nil the
\* decoded response is returned, with any error (absent key, cache failure)
\* the store is queried.
AfterCacheGet(l, entry, fault) ==
    IF ~fault /\ entry # NoEntry
      THEN [l EXCEPT !.pc = "done", !.hit = TRUE, !.dto = Unmarshal(entry.data), !.res = Ok]
      ELSE [l EXCEPT !.pc = "direct", !.getErr = fault]

\* cache.Get: a hit returns the cached response, a miss or a cache failure
\* goes on to the store.
LatestCacheGet(p) ==
    /\ latest[p].pc = "cacheGet"
    /\ \E fault \in BOOLEAN :
          latest' = [latest EXCEPT ![p] =
                        AfterCacheGet(@, cache[CacheKey(latest[p].pair)], fault)]
    /\ UNCHANGED <<store, uniqueIndex, cache, nextId, clock, started, writes, fetch, list>>

\* Whether the handler goes on to the inverse pair after FindLatest(pair)
\* returned err (the test "if err != nil").
RetriesInverse(err) == err # ""

\* The handler after FindLatest(query.Pair) returned (r, err).
AfterDirect(l, r, err) ==
    IF err = ""
      THEN [l EXCEPT !.direct = "found", !.used = r, !.dto = toDTO(r), !.pc = "cacheSet"]
    ELSE IF RetriesInverse(err)
      THEN [l EXCEPT !.direct = err, !.pc = "inverse"]
    ELSE [l EXCEPT !.direct = err, !.pc = "done", !.res = Failure("find latest", err)]

\* the inverse lookup with a not-found answered like a found row
AfterInverse_SwallowsMiss(l, r, err) ==
    IF err = ErrStore
      THEN [l EXCEPT !.inverse = err, !.pc = "done", !.res = Failure("find latest", err)]
      ELSE [l EXCEPT !.inverse = IF err = "" THEN "found" ELSE err, !.used = r,
                     !.dto = toDTOInverted(r, l.pair), !.pc = "cacheSet"]

\* The handler after FindLatest(query.Pair.Inverse()) returned (r, err): an
\* error is returned as it is, a row is converted to the requested pair.
AfterInverse(l, r, err) ==
    IF err # ""
      THEN [l EXCEPT !.inverse = err, !.pc = "done", !.res = Failure("find latest", err)]
      ELSE [l EXCEPT !.inverse = "found", !.used = r,
                     !.dto = toDTOInverted(r, l.pair), !.pc = "cacheSet"]

\* rateRepo.FindLatest(query.Pair) and the branch on its error.
LatestFindDirect(p) ==
    /\ latest[p].pc = "direct"
    /\ LET q == latest[p].pair
       IN  \/ latest' = [latest EXCEPT ![p] = AfterDirect(@, NoRow, ErrStore)]
           \/ /\ LatestRows(store, q) = {}
              /\ latest' = [latest EXCEPT ![p] = AfterDirect(@, NoRow, ErrNotFound)]
           \/ \E r \in LatestRows(store, q) :
                latest' = [latest EXCEPT ![p] = AfterDirect(@, r, "")]
    /\ UNCHANGED <<store, uniqueIndex, cache, nextId, clock, started, writes, fetch, list>>

\* rateRepo.FindLatest(query.Pair.Inverse()) and the branch on its error.
LatestFindInverse(p) ==
    /\ latest[p].pc = "inverse"
    /\ LET q == Inverse(latest[p].pair)
       IN  \/ latest' = [latest EXCEPT ![p] = AfterInverse(@, NoRow, ErrStore)]
           \/ /\ LatestRows(store, q) = {}
              /\ latest' = [latest EXCEPT ![p] = AfterInverse(@, NoRow, ErrNotFound)]
           \/ \E r \in LatestRows(store, q) :
                latest' = [latest EXCEPT ![p] = AfterInverse(@, r, "")]
    /\ UNCHANGED <<store, uniqueIndex, cache, nextId, clock, started, writes, fetch, list>>

\* cache.Set(cacheKey, result, 5*time.Minute); a failure is logged and ignored.
LatestCacheSet(p) ==
    /\ latest[p].pc = "cacheSet"
    /\ \E fault \in BOOLEAN :
         /\ cache' = IF fault THEN cache
                      ELSE [cache EXCEPT ![CacheKey(latest[p].pair)] =
                              [data |-> Marshal(latest[p].dto), ttl |-> CacheTTLMinutes]]
         /\ latest' = [latest EXCEPT ![p] =
                         [@ EXCEPT !.pc = "done", !.cacheSet = ~fault, !.setErr = fault,
                                   !.res = Ok]]
    /\ UNCHANGED <<store, uniqueIndex, nextId, clock, started, writes, fetch, list>>

\* a cache entry reaches the end of its TTL
CacheExpire(k) ==
    /\ cache[k] # NoEntry
    /\ cache' = [cache EXCEPT ![k] = NoEntry]
    /\ UNCHANGED <<store, uniqueIndex, nextId, clock, started, writes, fetch, latest, list>>

Next ==
    \/ \E p \in Fetchers : FetchStart(p)
    \/ \E p \in Fetchers : FetchExists(p)
    \/ \E p \in Fetchers : FetchProvider(p)
    \/ \E p \in Fetchers : FetchCreateSelect(p)
    \/ \E p \in Fetchers : FetchCreateWrite(p)
    \/ \E p \in Fetchers : FetchCacheDelete(p)
    \/ \E p \in Readers : LatestStart(p)
    \/ \E p \in Readers : LatestCacheGet(p)
    \/ \E p \in Readers : LatestFindDirect(p)
    \/ \E p \in Readers : LatestFindInverse(p)
    \/ \E p \in Readers : LatestCacheSet(p)
    \/ \E k \in CacheKeys : CacheExpire(k)

Spec == Init /\ [][Next]_vars

\* GetLatestRateHandler.Handle is entered once more, with the pair of the
\* reader's previous query, after that query returned.
LatestAgain(p) ==
    /\ latest[p].pc = "done" /\ latest[p].via = "" /\ ~latest[p].again
    /\ started <= MaxCmds
    /\ list.mode = "none"
    /\ latest' = [latest EXCEPT ![p] =
          [IdleLatest EXCEPT !.pc = "cacheGet", !.pair = latest[p].pair, !.again = TRUE,
              !.startedAt = [latest[p].startedAt EXCEPT
                                ![CacheKey(latest[p].pair)] = started + 1]]]
    /\ started' = started + 1
    /\ UNCHANGED <<store, uniqueIndex, cache, nextId, clock, writes, fetch, list>>

\* a Fetch Command and a Latest-Rate query side by side, and the same query
\* once more afterwards
NextRepeat ==
    \/ Next
    \/ \E p \in Readers : LatestAgain(p)

SpecRepeat == Init /\ [][NextRepeat]_vars

\* ------------------------------------------------------ List-Rates query
\* The listing scenarios: the store holds nD rows of CNY/JPY and nI rows of
\* JPY/CNY, one per day, as earlier Fetch Commands stored them.
ListRow(p, d, inv) ==
    [id |-> IF inv THEN 100 + d ELSE d, base |-> p.base, quote |-> p.quote, date |-> d,
     source |-> ProviderName,
     value |-> IF inv THEN [num |-> 1, den |-> d + 2] ELSE [num |-> d + 1, den |-> 1],
     createdAt |-> d, updatedAt |-> d]

DirectPair == [base |-> "CNY", quote |-> "JPY"]

ListStore(nD, nI) ==
    {ListRow(DirectPair, d, FALSE) : d \in 1..nD}
      \cup {ListRow(Inverse(DirectPair), d, TRUE) : d \in 1..nI}

InitQuery ==
    /\ \E nD \in 0..MaxRows, nI \in 0..MaxRows : store = ListStore(nD, nI)
    /\ uniqueIndex = FALSE
    /\ cache = [k \in CacheKeys |-> NoEntry]
    /\ nextId = 1
    /\ clock = MaxRows + 1
    /\ started = 0
    /\ writes = 0
    /\ fetch = [p \in Fetchers |-> IdleFetch]
    /\ latest = [p \in Readers |-> IdleLatest]
    /\ list = IdleList

\* List(pair, page, pageSize) without a date range. A List query reads the
\* store alone and the store of these scenarios is fixed, so a behaviour is
\* one List query or a run of Latest-Rate queries: nothing is gained by
\* interleaving the two.
ListRates ==
    /\ list.mode = "none"
    /\ started = 0
    /\ \E pair \in Pairs, page \in 1..MaxPage, pageSize \in 1..MaxPageSize,
          f1 \in BOOLEAN, f2 \in BOOLEAN, f3 \in BOOLEAN, f4 \in BOOLEAN, f5 \in BOOLEAN :
          list' = HandleList(store,
                     [IdleList EXCEPT !.mode = "A", !.pair = pair, !.page = page,
                                      !.pageSize = pageSize],
                     f1, f2, f3, f4, f5)
    /\ started' = started + 1
    /\ UNCHANGED <<store, uniqueIndex, cache, nextId, clock, writes, fetch, latest>>

\* List(pair, page, pageSize, start, end) with a date range
ListRatesByDateRange ==
    /\ list.mode = "none"
    /\ started = 0
    /\ \E pair \in Pairs, page \in (1..MaxPage) \cup {HugePage}, pageSize \in 1..MaxPageSize,
          start \in 1..(1 + MaxSkip), end \in (MaxRows - MaxSkip)..MaxRows,
          f1 \in BOOLEAN, f2 \in BOOLEAN :
          list' = HandleDateRange(store,
                     [IdleList EXCEPT !.mode = "B", !.pair = pair, !.page = page,
                                      !.pageSize = pageSize, !.start = start, !.end = end],
                     f1, f2)
    /\ started' = started + 1
    /\ UNCHANGED <<store, uniqueIndex, cache, nextId, clock, writes, fetch, latest>>

\* ------------------------------------------------- the HTTP rate handler
StatusOK == 200
StatusBadRequest == 400
StatusNotFound == 404
StatusInternalServerError == 500

\* c.JSON(status, {"success": false, "error": {"code": code, ...}}), or
\* c.JSON(200, {"success": true, "data": ...}) with no error code
Response(status, code) == [status |-> status, code |-> code]

\* The pair parameter of a request: absent, two spellings of the stored
\* orientations, and one that does not parse.
PairParams ==
    {<<>>, PairText(DirectPair), Text("JPY") \o Text("CNY"),
     Text("CNY") \o <<"-">> \o Text("CNY")}

\* The date parameter of a request: absent, not a date, or a day.
NoDateParam == [given |-> FALSE, valid |-> FALSE, day |-> 0]

DateParams ==
    {NoDateParam, [given |-> TRUE, valid |-> FALSE, day |-> 0]}
        \cup {[given |-> TRUE, valid |-> TRUE, day |-> d] : d \in Dates}

\* timeutil.ParseDate
ParseDate(d) ==
    IF d.valid THEN [err |-> "", day |-> d.day] ELSE [err |-> "invalid date", day |-> 0]

\* the request is answered 400 before the query handler is called
BadRequest(l, via) ==
    [IdleLatest EXCEPT !.pc = "responded", !.via = via, !.startedAt = l.startedAt,
                       !.http = Response(StatusBadRequest, "BAD_REQUEST")]

\* getLatestHandler.Handle is called with the parsed pair
CallHandle(l, via, pair, day, n) ==
    [IdleLatest EXCEPT !.pc = "cacheGet", !.via = via, !.pair = pair, !.date = day,
                       !.startedAt = [l.startedAt EXCEPT ![CacheKey(pair)] = n]]

\* RateHandler.GetLatest up to its call of the query handler
HandlerGetLatest(p) ==
    /\ LatestFree(latest[p])
    /\ started < MaxCmds
    /\ list.mode = "none"
    /\ \E pairStr \in PairParams :
          latest' = [latest EXCEPT ![p] =
             IF pairStr = <<>> \/ ParsePair(pairStr).err # ""
               THEN BadRequest(@, "GetLatest")
               ELSE CallHandle(@, "GetLatest", ParsePair(pairStr).pair, 0, started + 1)]
    /\ started' = started + 1
    /\ UNCHANGED <<store, uniqueIndex, cache, nextId, clock, writes, fetch, list>>

\* RateHandler.GetByDate up to its call of the query handler
HandlerGetByDate(p) ==
    /\ LatestFree(latest[p])
    /\ started < MaxCmds
    /\ list.mode = "none"
    /\ \E pairStr \in PairParams, dateStr \in DateParams :
          latest' = [latest EXCEPT ![p] =
             IF \/ pairStr = <<>> \/ ~dateStr.given
                \/ ParsePair(pairStr).err # "" \/ ParseDate(dateStr).err # ""
               THEN BadRequest(@, "GetByDate")
               ELSE CallHandle(@, "GetByDate", ParsePair(pairStr).pair,
                               ParseDate(dateStr).day, started + 1)]
    /\ started' = started + 1
    /\ UNCHANGED <<store, uniqueIndex, cache, nextId, clock, writes, fetch, list>>

\* The response written once the query handler has returned (result, err):
\* GetLatest answers 404 on any error; GetByDate answers 404 on any error and
\* when the effective date of the result is not the requested day.
ResponseOf(l) ==
    IF ~l.res.ok THEN Response(StatusNotFound, "NOT_FOUND")
    ELSE IF l.via = "GetByDate" /\ l.dto.effectiveDate # l.date
      THEN Response(StatusNotFound, "NOT_FOUND")
    ELSE Response(StatusOK, "")

\* RateHandler.GetLatest and RateHandler.GetByDate after the query handler
HandlerRespond(p) ==
    /\ latest[p].pc = "done" /\ latest[p].via # ""
    /\ latest' = [latest EXCEPT ![p] =
                     [@ EXCEPT !.pc = "responded", !.http = ResponseOf(latest[p])]]
    /\ UNCHANGED <<store, uniqueIndex, cache, nextId, clock, started, writes, fetch, list>>

DefaultPageSize == 20
PageSizeLimit == 100

\* the page and pageSize parameters after strconv.Atoi and the defaults; 0
\* stands for an absent, unparsable or non-positive parameter
PageOf(n) == IF n < 1 THEN 1 ELSE n

PageSizeOf(n) ==
    IF n < 1 THEN DefaultPageSize ELSE IF n > PageSizeLimit THEN PageSizeLimit ELSE n

\* RateHandler.List: an absent pair parameter leaves the query's pair at its
\* zero value. (The parameters are those whose offset fits the scaled-down
\* machine integer.)
HandlerList ==
    /\ list.mode = "none"
    /\ started = 0
    /\ \E pairStr \in PairParams, page \in 0..MaxPage,
          pageSize \in (0..MaxPageSize) \cup {PageSizeLimit + 1},
          f1 \in BOOLEAN, f2 \in BOOLEAN, f3 \in BOOLEAN, f4 \in BOOLEAN, f5 \in BOOLEAN :
          /\ (PageOf(page) - 1) * PageSizeOf(pageSize) < 2 ^ (IntBits - 1)
          /\ list' =
             IF pairStr # <<>> /\ ParsePair(pairStr).err # ""
              THEN [IdleList EXCEPT !.mode = "rejected", !.via = "List",
                                    !.res = Failure("parse pair", ParsePair(pairStr).err),
                                    !.http = Response(StatusBadRequest, "BAD_REQUEST")]
              ELSE LET pair == IF pairStr = <<>> THEN NoPair ELSE ParsePair(pairStr).pair
                       out == HandleList(store,
                                [IdleList EXCEPT !.mode = "A", !.via = "List",
                                     !.given = pairStr # <<>>, !.pair = pair,
                                     !.page = PageOf(page), !.pageSize = PageSizeOf(pageSize)],
                                f1, f2, f3, f4, f5)
                   IN  [out EXCEPT !.http =
                          IF out.res.ok THEN Response(StatusOK, "")
                          ELSE Response(StatusInternalServerError, "INTERNAL_ERROR")]
    /\ started' = started + 1
    /\ UNCHANGED <<store, uniqueIndex, cache, nextId, clock, writes, fetch, latest>>

NextQuery ==
    \/ ListRates
    \/ ListRatesByDateRange
    \/ \E p \in Readers : LatestStart(p)
    \/ \E p \in Readers : LatestCacheGet(p)
    \/ \E p \in Readers : LatestFindDirect(p)
    \/ \E p \in Readers : LatestFindInverse(p)
    \/ \E p \in Readers : LatestCacheSet(p)
    \/ \E k \in CacheKeys : CacheExpire(k)

SpecQuery == InitQuery /\ [][NextQuery]_vars

\* the HTTP requests over the same stores
NextHTTP ==
    \/ HandlerList
    \/ \E p \in Readers : HandlerGetLatest(p)
    \/ \E p \in Readers : HandlerGetByDate(p)
    \/ \E p \in Readers : HandlerRespond(p)
    \/ \E p \in Readers : LatestCacheGet(p)
    \/ \E p \in Readers : LatestFindDirect(p)
    \/ \E p \in Readers : LatestFindInverse(p)
    \/ \E p \in Readers : LatestCacheSet(p)
    \/ \E k \in CacheKeys : CacheExpire(k)

SpecHTTP == InitQuery /\ [][NextHTTP]_vars

\* ======================================================================
\* Properties of the Fetch Command and the Latest-Rate query (Spec)
\* ======================================================================
SameKey(r1, r2) ==
    /\ r1.base = r2.base /\ r1.quote = r2.quote
    /\ r1.date = r2.date /\ r1.source = r2.source

\* C1: in every reachable state the store holds at most one row per
\* (base, quote, effective_date, source), whatever the interleaving of the
\* Fetch Commands.
C1_OneRowPerKey == \A r1, r2 \in store : SameKey(r1, r2) => r1 = r2

\* Two finished Fetch Commands for the same (pair, date) that both passed the
\* existence check (neither saw a row), both called Create, and met no
\* database failure other than the conflict itself.
Raced(p, q) ==
    /\ p # q
    /\ fetch[p].pc = "done" /\ fetch[q].pc = "done"
    /\ fetch[p].raced /\ fetch[q].raced
    /\ fetch[p].id # 0 /\ fetch[q].id # 0
    /\ fetch[p].pair = fetch[q].pair /\ fetch[p].date = fetch[q].date
    /\ fetch[p].res.err # ErrStore /\ fetch[q].res.err # ErrStore

LastWriter(p, q) == IF fetch[p].wrote > fetch[q].wrote THEN fetch[p] ELSE fetch[q]

\* C2: when two concurrent Fetch Commands for the same (pair, date) both pass
\* the existence check before either writes, both Create calls complete
\* without error and the single stored row carries the value and the update
\* timestamp of the last writer.
C2_RaceLastWriterWins ==
    \A p, q \in Fetchers :
        Raced(p, q) =>
            /\ fetch[p].res.ok /\ fetch[q].res.ok
            /\ LET rows == KeyRows(store, fetch[p].pair, fetch[p].date, ProviderName)
               IN  /\ Cardinality(rows) = 1
                   /\ \A r \in rows : /\ r.value = LastWriter(p, q).value
                                      /\ r.updatedAt = LastWriter(p, q).assignAt

\* a row of (pair, date), of any source, is stored
HasRow(pair, date) ==
    \E r \in store : r.base = pair.base /\ r.quote = pair.quote /\ r.date = date

\* C3: once a Fetch Command for (pair, date) has succeeded a row of
\* (pair, date) is stored, and a Fetch Command that runs its existence check
\* while such a row is stored returns success at once: it calls the provider
\* zero times and writes neither the store nor the cache (the existence check
\* itself answering, not failing).
C3_SecondFetchIsNoOp ==
    /\ [](\A p \in Fetchers :
            (fetch[p].pc = "done" /\ fetch[p].res.ok)
                => HasRow(fetch[p].pair, fetch[p].date))
    /\ [][\A p \in Fetchers :
            (/\ fetch[p].pc = "exists" /\ fetch'[p].pc # "exists"
             /\ HasRow(fetch[p].pair, fetch[p].date)
             /\ fetch'[p].res.err # ErrStore)
                => (/\ fetch'[p].pc = "done" /\ fetch'[p].res = Ok
                    /\ fetch'[p].calls = 0 /\ fetch'[p].wrote = 0
                    /\ store' = store /\ cache' = cache)]_vars

\* one command stored the row, the other found it and skipped: one provider
\* call and one row in all
C3_Witness ==
    \E p, q \in Fetchers :
        /\ p # q
        /\ fetch[p].pc = "done" /\ fetch[p].res.ok /\ fetch[p].wrote > 0
        /\ fetch[q].pc = "done" /\ fetch[q].res.ok /\ fetch[q].hadRow
        /\ fetch[p].pair = fetch[q].pair /\ fetch[p].date = fetch[q].date
        /\ fetch[p].calls + fetch[q].calls = 1
        /\ Cardinality(KeyRows(store, fetch[p].pair, fetch[p].date, ProviderName)) = 1

\* C4: on a cache miss, when FindLatest(requested pair) fails with a store
\* error other than not-found, the query fails with it: FindLatest is not
\* called for the inverse pair and no successful response is returned.
C4_StoreErrorNotRetried ==
    \A p \in Readers :
        latest[p].direct = ErrStore =>
            /\ latest[p].inverse = ""
            /\ latest[p].pc = "done" => ~latest[p].res.ok

\* C10: on a cache miss, if FindLatest returns not-found for the requested
\* pair and for its inverse, the query fails with not-found and writes nothing
\* to the cache.
C10_DoubleMissFails ==
    /\ [](\A p \in Readers :
            (latest[p].direct = ErrNotFound /\ latest[p].inverse = ErrNotFound)
                => (/\ latest[p].pc = "done"
                    /\ latest[p].res = Failure("find latest", ErrNotFound)
                    /\ ~latest[p].cacheSet))
    /\ [][\A p \in Readers :
            (latest[p].direct = ErrNotFound /\ latest'[p].inverse = ErrNotFound)
                => cache' = cache]_vars

C10_Witness ==
    \E p \in Readers :
        /\ latest[p].direct = ErrNotFound /\ latest[p].inverse = ErrNotFound
        /\ latest[p].pc = "done"
        /\ LatestRows(store, latest[p].pair) = {}
        /\ LatestRows(store, Inverse(latest[p].pair)) = {}

\* ------------------------------------------------------ the provider client
\* rows of the provider's response: rateData for (transCur, baseCur)
ResponseRows ==
    [transCur : Codes, baseCur : Codes,
     rateData : {[num |-> 1, den |-> 2], [num |-> 2, den |-> 1]}]

\* the responses of at most MaxResp rows
Responses == UNION {[1..n -> ResponseRows] : n \in 0..MaxResp}

ErrUnsupportedPair == "unsupported currency pair"
ErrFetchData == "failed to fetch data"
ErrRateNotInResponse == "rate not found in response"

\* "item.TransCur == quoteCur && item.BaseCur == baseCur"; the earlier client
\* compares with the literals "JPY" and "CNY"
RowMatches(item, pair, legacy) ==
    IF legacy THEN item.transCur = "JPY" /\ item.baseCur = "CNY"
    ELSE item.transCur = pair.quote /\ item.baseCur = pair.base

\* SupportedPairs of the earlier client: CNY/JPY only
supportsPair(pair) == pair.base = "CNY" /\ pair.quote = "JPY"

\* Client.FetchRate(pair, date) on the response resp; fault is a failure of
\* the HTTP request or of the JSON decoding. The earlier client (legacy)
\* refuses every pair but CNY/JPY first.
ClientFetchRate(resp, pair, legacy, fault) ==
    LET hits == {i \in 1..Len(resp) : RowMatches(resp[i], pair, legacy)}
    IN  IF legacy /\ ~supportsPair(pair)
          THEN [err |-> ErrUnsupportedPair, value |-> Zero]
        ELSE IF fault THEN [err |-> ErrFetchData, value |-> Zero]
        ELSE IF hits # {}
          THEN [err |-> "", value |-> resp[CHOOSE i \in hits : \A j \in hits : i <= j].rateData]
        ELSE [err |-> ErrRateNotInResponse, value |-> Zero]

\* The client is asked for the rate of a pair and the upstream answers resp
\* (one call in a behaviour: the client keeps no state between calls).
ProviderCall(p) ==
    /\ fetch[p].pc \in {"idle", "done"}
    /\ started = 0
    /\ \E pair \in Pairs, resp \in Responses, legacy \in BOOLEAN, fault \in BOOLEAN :
          LET out == ClientFetchRate(resp, pair, legacy, fault)
          IN  fetch' = [fetch EXCEPT ![p] =
                 [IdleFetch EXCEPT !.pc = "done", !.pair = pair, !.asked = TRUE,
                                   !.legacy = legacy, !.resp = resp, !.calls = 1,
                                   !.value = out.value,
                                   !.res = IF out.err = "" THEN Ok
                                           ELSE Failure("fetch rate from provider", out.err)]]
    /\ started' = started + 1
    /\ UNCHANGED <<store, uniqueIndex, cache, nextId, clock, writes, latest, list>>

NextProvider == \E p \in Fetchers : ProviderCall(p)

SpecProvider == Init /\ [][NextProvider]_vars

\* ------------------------------------------------------------ rate.NewRate
\* the values, dates and sources NewRate is tried on
RateValues == ProviderValues \cup {[num |-> -1, den |-> 2], NaN}
RateDates == (Year2000 - 1)..(Today + MaxAhead)
RateSources == ValidSources \cup {"", "bank"}

\* rate.NewRate(pair, value, effectiveDate, source): the entity is built and
\* validated; an entity that fails the validation is not returned.
NewRateCall(p) ==
    /\ fetch[p].pc \in {"idle", "done"}
    /\ started = 0
    /\ \E pair \in Pairs, v \in RateValues, date \in RateDates, source \in RateSources :
          LET err == Validate(v, date, source, Today)
          IN  fetch' = [fetch EXCEPT ![p] =
                 [IdleFetch EXCEPT !.pc = "done", !.built = TRUE, !.pair = pair,
                       !.value = v, !.date = date, !.source = source,
                       !.id = IF err = "" THEN nextId ELSE 0,
                       !.createdAt = IF err = "" THEN clock ELSE 0,
                       !.res = IF err = "" THEN Ok
                               ELSE Failure("create rate entity", ErrInvalidRate)]]
    /\ nextId' = nextId + 1
    /\ started' = started + 1
    /\ UNCHANGED <<store, uniqueIndex, cache, clock, writes, latest, list>>

NextNewRate == \E p \in Fetchers : NewRateCall(p)

SpecNewRate == Init /\ [][NextNewRate]_vars

\* ------------------------------------------------- the repository's Create
\* rateRepo.Create is entered with a rate entity that NewRate accepted.
CreateCall(p) ==
    /\ fetch[p].pc \in {"idle", "done"}
    /\ started < MaxCmds
    /\ \E pair \in Pairs, date \in Dates, v \in ProviderValues :
          /\ Validate(v, date, ProviderName, Today) = ""
          /\ fetch' = [fetch EXCEPT ![p] =
                [IdleFetch EXCEPT !.pc = "select", !.pair = pair, !.date = date,
                                  !.value = v, !.id = nextId, !.createdAt = clock]]
    /\ nextId' = nextId + 1
    /\ started' = started + 1
    /\ UNCHANGED <<store, uniqueIndex, cache, clock, writes, latest, list>>

\* rateRepo.Create is entered again with the entity of the caller's previous,
\* successful call. target is the row that call wrote, snap the table now.
CreateAgain(p) ==
    /\ fetch[p].pc = "done" /\ fetch[p].wrote > 0
    /\ started < MaxCmds
    /\ fetch' = [fetch EXCEPT ![p] =
          [IdleFetch EXCEPT !.pc = "select", !.pair = fetch[p].pair, !.date = fetch[p].date,
                            !.value = fetch[p].value, !.id = fetch[p].id,
                            !.createdAt = fetch[p].createdAt, !.again = TRUE,
                            !.target = IF fetch[p].found = 0 THEN fetch[p].id
                                       ELSE fetch[p].found,
                            !.snap = store, !.snapWrites = writes]]
    /\ started' = started + 1
    /\ UNCHANGED <<store, uniqueIndex, cache, nextId, clock, writes, latest, list>>

NextCreate ==
    \/ \E p \in Fetchers : CreateCall(p)
    \/ \E p \in Fetchers : CreateAgain(p)
    \/ \E p \in Fetchers : FetchCreateSelect(p)
    \/ \E p \in Fetchers : FetchCreateWrite(p)
    \/ \E p \in Fetchers : FetchCacheDelete(p)

SpecCreate == Init /\ [][NextCreate]_vars

\* ======================================================================
\* Properties of the queries over a fixed store (SpecQuery)
\* ======================================================================
\* x is the reciprocal of the stored value v (0 for 0)
IsReciprocal(x, v) == IF v.num = 0 THEN x = Zero ELSE x.num * v.num = x.den * v.den

\* The response item shows a stored row rightly for the requested pair: a row
\* of the inverse pair is shown as the requested pair with the reciprocal
\* value, a row of the requested pair is shown verbatim.
ShownRight(item, requested) ==
    \E r \in store :
        /\ r.id = item.id
        /\ IF r.base = requested.quote /\ r.quote = requested.base
             THEN /\ item.pair = requested.base \o "/" \o requested.quote
                  /\ item.baseCurrency = requested.base
                  /\ item.quoteCurrency = requested.quote
                  /\ IsReciprocal(item.rate, r.value)
             ELSE /\ r.base = requested.base /\ r.quote = requested.quote
                  /\ item.pair = r.base \o "/" \o r.quote
                  /\ item.baseCurrency = r.base
                  /\ item.quoteCurrency = r.quote
                  /\ item.rate = r.value

\* C5: whenever GetLatest or List answers from rows stored in the inverse
\* orientation, every item shows the requested pair and the reciprocal of the
\* stored value; from the direct orientation, pair and value are the stored
\* ones verbatim. GetLatest with only an inverse row stored succeeds (its
\* store calls answering).
C5_InverseRowsAreConverted ==
    /\ (list.mode # "none" /\ list.res.ok)
          => \A i \in 1..Len(list.items) : ShownRight(list.items[i], list.pair)
    /\ \A p \in Readers :
          /\ (latest[p].pc = "done" /\ latest[p].res.ok)
                => ShownRight(latest[p].dto, latest[p].pair)
          /\ (/\ latest[p].pc = "done" /\ ~latest[p].hit
              /\ RowsOf(store, latest[p].pair) = {}
              /\ RowsOf(store, Inverse(latest[p].pair)) # {}
              /\ latest[p].direct # ErrStore /\ latest[p].inverse # ErrStore)
                => (latest[p].res.ok /\ latest[p].inverse = "found")

\* GetLatest answered from the inverse row alone, with a converted value
C5_Witness ==
    \E p \in Readers :
        /\ latest[p].pc = "done" /\ latest[p].res.ok /\ ~latest[p].hit
        /\ latest[p].inverse = "found"
        /\ RowsOf(store, latest[p].pair) = {}
        /\ latest[p].dto.pair = PairString(latest[p].pair)
        /\ latest[p].dto.rate # latest[p].used.value
        /\ IsReciprocal(latest[p].dto.rate, latest[p].used.value)

\* C6: with an explicit date range the returned items are ordered descending
\* by effective date (most recent first), whichever side was selected.
C6_DateRangeDescending ==
    (list.mode = "B" /\ list.res.ok)
        => \A i, j \in 1..Len(list.items) :
              i < j => list.items[i].effectiveDate >= list.items[j].effectiveDate

\* the rows a List query's side holds: all rows of the pair without a date
\* range, the rows of the pair within the range with one
SideRows(q, pair) ==
    IF q.mode = "A" THEN RowsOf(store, pair)
    ELSE {r \in RowsOf(store, pair) : q.start <= r.date /\ r.date <= q.end}

\* the direct query returned no row: the page lies past the rows of the pair,
\* or (with a date range) no row of the pair lies in the range
DirectEmpty(q) ==
    IF q.mode = "A"
      THEN (q.page - 1) * q.pageSize >= Cardinality(SideRows(q, q.pair))
      ELSE SideRows(q, q.pair) = {}

InverseTriggered(q) ==
    \/ q.directErr # ""
    \/ DirectEmpty(q)
    \/ Cardinality(SideRows(q, q.pair)) < 10

InverseExpected(q) ==
    /\ InverseTriggered(q)
    /\ q.inverseErr = ""
    /\ \/ q.directErr # ""
       \/ Cardinality(SideRows(q, Inverse(q.pair))) > Cardinality(SideRows(q, q.pair))

\* C7: the inverse result set is returned instead of the direct one exactly
\* when the inverse lookup was triggered (direct errored, returned zero rows,
\* or direct count < 10) and either the inverse succeeded with inverse count >
\* direct count, or the direct failed and the inverse succeeded; counts are
\* the store's counts without a date range and the result lengths with one.
\* (Stated for the queries whose count calls all answered.)
C7_SelectionRule ==
    (list.mode # "none" /\ list.res.ok /\ ~list.countErrs)
        => (list.inverted <=> InverseExpected(list))

\* C8: without a date range the reported total is the store's count of the
\* selected orientation, and if the final count call fails the query fails
\* with that error and returns no result.
C8_TotalOfSelectedSide ==
    list.mode = "A" =>
        /\ list.res.ok =>
             list.total = Cardinality({r \in store :
                             IF list.inverted
                               THEN r.base = list.pair.quote /\ r.quote = list.pair.base
                               ELSE r.base = list.pair.base /\ r.quote = list.pair.quote})
        /\ list.totalErr =>
             /\ list.res = Failure("count", ErrCount)
             /\ list.items = <<>> /\ list.total = 0

\* 3 direct rows against 11 inverse rows: items from the inverse set, total 11
C8_Witness ==
    /\ list.mode = "A" /\ list.res.ok /\ list.inverted
    /\ Cardinality(RowsOf(store, list.pair)) = 3
    /\ list.total = 11
    /\ Len(list.items) > 0

\* C9: if the direct query fails the inverse orientation is still attempted,
\* and if the inverse query fails too the query fails with the direct query's
\* error (not the inverse one) and returns no result.
C9_BothFailDirectError ==
    (list.mode # "none" /\ list.directErr # "") =>
        /\ list.tried
        /\ list.inverseErr # "" =>
             /\ ~list.res.ok /\ list.res.err = ErrDirect
             /\ list.items = <<>>

C9_Witness ==
    /\ list.mode # "none"
    /\ list.directErr = ErrDirect /\ list.inverseErr = ErrInverse
    /\ list.tried /\ ~list.res.ok

\* ======================================================================
\* Properties of the cache (Spec)
\* ======================================================================
\* C11: when the cache holds an entry under "latest:" + P.String() (and
\* cache.Get answers), GetLatest(P) returns the cached response, calls
\* FindLatest for neither orientation and writes nothing to the cache.
C11_CacheHitSkipsStore ==
    /\ [](\A p \in Readers :
            latest[p].hit =>
                /\ latest[p].pc = "done" /\ latest[p].res = Ok
                /\ latest[p].direct = "" /\ latest[p].inverse = ""
                /\ ~latest[p].cacheSet /\ ~latest[p].setErr)
    /\ [][\A p \in Readers :
            (/\ latest[p].pc = "cacheGet" /\ latest'[p].pc # "cacheGet"
             /\ cache[CacheKey(latest[p].pair)] # NoEntry
             /\ ~latest'[p].getErr)
              => /\ latest'[p].hit /\ latest'[p].pc = "done"
                 /\ latest'[p].dto = Unmarshal(cache[CacheKey(latest[p].pair)].data)
                 /\ cache' = cache /\ store' = store]_vars

\* a query answered from the entry an earlier query of the same pair cached
C11_Witness ==
    \E p \in Readers :
        /\ latest[p].hit /\ latest[p].pc = "done"
        /\ latest[p].dto.id # 0
        /\ latest[p].dto.pair = PairString(latest[p].pair)
        /\ cache[CacheKey(latest[p].pair)].data = Marshal(latest[p].dto)

\* C12: every successful GetLatest(P) that missed the cache, answered from
\* the direct or from the inverse orientation, writes exactly the response it
\* returns under "latest:" + P.String() (the requested pair's key, no other
\* key) with a TTL of 5 minutes (cache.Set answering).
C12_MissPopulatesRequestedKey ==
    /\ [](\A p \in Readers :
            (latest[p].pc = "done" /\ latest[p].res.ok /\ ~latest[p].hit)
                => /\ latest[p].cacheSet # latest[p].setErr
                   /\ latest[p].dto # NoDTO)
    /\ [][\A p \in Readers :
            (latest[p].pc = "cacheSet" /\ latest'[p].pc = "done" /\ ~latest'[p].setErr)
              => /\ latest'[p].res.ok /\ latest'[p].cacheSet
                 /\ latest'[p].dto = latest[p].dto
                 /\ \A k \in CacheKeys :
                       IF k = "latest:" \o latest[p].pair.base \o "/" \o latest[p].pair.quote
                         THEN /\ Unmarshal(cache'[k].data) = latest'[p].dto
                              /\ cache'[k].ttl = 5
                         ELSE cache'[k] = cache[k]]_vars

\* an answer from the inverse row cached under the requested pair's key only
C12_Witness ==
    \E p \in Readers :
        /\ latest[p].pc = "done" /\ latest[p].res.ok /\ latest[p].cacheSet
        /\ latest[p].inverse = "found"
        /\ Unmarshal(cache[CacheKey(latest[p].pair)].data) = latest[p].dto
        /\ cache[CacheKey(latest[p].pair)].ttl = 5
        /\ cache[CacheKey(Inverse(latest[p].pair))] = NoEntry

\* a Fetch Command that stored a rate and completed with its cache delete done
StoredAndInvalidated(f) ==
    /\ fetch[f].pc = "done" /\ fetch[f].res.ok
    /\ fetch[f].wrote > 0 /\ fetch[f].deleted

\* a GetLatest of the pair of key k has started since command f completed
QueriedSince(f, k) == \E p \in Readers : latest[p].startedAt[k] > fetch[f].doneAt

\* C13 as stated: after a Fetch Command that stored a new rate for pair P
\* completes (cache delete succeeding), the cache holds no entry under
\* "latest:" + P.String() until the next GetLatest(P), which therefore reads
\* the store.
C13_NoEntryAfterFetch ==
    \A f \in Fetchers :
        (StoredAndInvalidated(f) /\ ~QueriedSince(f, CacheKey(fetch[f].pair)))
            => cache[CacheKey(fetch[f].pair)] = NoEntry

\* C13 amended: the step that completes a storing Fetch Command for P with a
\* successful cache delete leaves no entry under "latest:" + P.String(); an
\* absent key becomes present only by the cache set of some GetLatest of that
\* pair (possibly one that was already in flight); and a GetLatest(P) that
\* finds the key absent reads the store via FindLatest.
C13_InvalidatedUntilNextSet ==
    /\ [][\A f \in Fetchers :
            (fetch[f].pc = "cacheDel" /\ fetch'[f].pc = "done" /\ fetch'[f].deleted)
              => /\ cache'[CacheKey(fetch[f].pair)] = NoEntry
                 /\ fetch'[f].res.ok /\ fetch'[f].wrote > 0]_vars
    /\ [][\A k \in CacheKeys :
            (cache[k] = NoEntry /\ cache'[k] # NoEntry)
              => \E p \in Readers :
                    /\ latest[p].pc = "cacheSet" /\ latest'[p].cacheSet
                    /\ CacheKey(latest[p].pair) = k]_vars
    /\ [][\A p \in Readers :
            (/\ latest[p].pc = "cacheGet" /\ latest'[p].pc # "cacheGet"
             /\ cache[CacheKey(latest[p].pair)] = NoEntry)
              => (latest'[p].pc = "direct" /\ ~latest'[p].hit)]_vars

\* a query in flight during the fetch cached the older rate after the delete
C13_Witness ==
    \E f \in Fetchers, p \in Readers :
        /\ StoredAndInvalidated(f)
        /\ latest[p].pair = fetch[f].pair
        /\ ~QueriedSince(f, CacheKey(fetch[f].pair))
        /\ latest[p].pc = "done" /\ latest[p].cacheSet
        /\ latest[p].dto.effectiveDate < fetch[f].date
        /\ cache[CacheKey(fetch[f].pair)] # NoEntry

\* the response the handler builds from the row it used
Built(l) == IF l.inverse = "found" THEN toDTOInverted(l.used, l.pair) ELSE toDTO(l.used)

\* C14: a cache operation failure never changes the outcome of GetLatest or
\* of the Fetch Command: a failing cache get is treated as a miss and the
\* store is consulted, a failing cache set still returns the response
\* successfully, and a failing cache delete after a successful create still
\* returns success.
C14_CacheFailuresSwallowed ==
    /\ \A p \in Readers :
          /\ latest[p].getErr =>
                /\ ~latest[p].hit
                /\ latest[p].pc \in {"direct", "inverse", "cacheSet", "done"}
                /\ latest[p].pc # "direct" => latest[p].direct # ""
          /\ (latest[p].pc = "done" /\ ~latest[p].hit) =>
                (latest[p].res.ok <=> (latest[p].direct = "found" \/ latest[p].inverse = "found"))
          /\ latest[p].setErr =>
                /\ latest[p].pc = "done" /\ latest[p].res = Ok
                /\ latest[p].dto = Built(latest[p])
    /\ \A f \in Fetchers :
          (fetch[f].pc = "done" /\ fetch[f].wrote > 0) => fetch[f].res = Ok

\* a query whose cache get and cache set both failed and a command whose
\* cache delete failed, all three answering as if the cache had worked
C14_Witness ==
    /\ \E p \in Readers :
          /\ latest[p].pc = "done" /\ latest[p].getErr /\ latest[p].setErr
          /\ latest[p].res.ok /\ latest[p].dto.id # 0
    /\ \E f \in Fetchers :
          /\ fetch[f].pc = "done" /\ fetch[f].wrote > 0 /\ ~fetch[f].deleted
          /\ fetch[f].res.ok

\* C15: whenever the Fetch Command returns a failure (existence-check store
\* error, provider failure, Rate validation failure, or create error) the
\* store content is unchanged and no cache key has been deleted; and the
\* provider is not called when the existence check errors.
C15_FailedFetchWritesNothing ==
    /\ [](\A f \in Fetchers :
            (fetch[f].pc = "done" /\ ~fetch[f].res.ok) =>
                /\ fetch[f].wrote = 0 /\ ~fetch[f].deleted
                /\ fetch[f].res.stage \in {"check rate existence", "fetch rate from provider",
                                           "create rate entity", "save rate"}
                /\ fetch[f].res.stage = "check rate existence" => fetch[f].calls = 0)
    /\ [][\A f \in Fetchers :
            (fetch[f].pc \notin {"idle", "done"} /\ fetch'[f].pc = "done" /\ ~fetch'[f].res.ok)
                => (store' = store /\ cache' = cache)]_vars

\* one command failed at the existence check, the other at the create
C15_Witness ==
    \E f, g \in Fetchers :
        /\ fetch[f].pc = "done" /\ fetch[f].res = Failure("check rate existence", ErrStore)
        /\ fetch[f].calls = 0
        /\ fetch[g].pc = "done" /\ fetch[g].res.stage = "save rate"
        /\ fetch[g].calls = 1
        /\ store \in InitStores

\* ======================================================================
\* Properties of the repository's Create (SpecCreate)
\* ======================================================================
\* the table with row r's value and update timestamp overwritten
Overwritten(rows, r, value, at) ==
    (rows \ {r}) \cup {[r EXCEPT !.value = value, !.updatedAt = at]}

\* a second call with identical inputs has just written, and nothing else
\* wrote since it was entered
WroteAgain(p) ==
    /\ fetch[p].again /\ fetch[p].pc = "cacheDel"
    /\ writes = fetch[p].snapWrites + 1

PageLen(page, pageSize, n) ==
    IF (page - 1) * pageSize >= n THEN 0
    ELSE (IF page * pageSize < n THEN page * pageSize ELSE n) - (page - 1) * pageSize

\* C17: with a date range, for page >= 1 and pageSize >= 1, the returned
\* items are exactly the elements at positions [(page-1)*pageSize,
\* min(page*pageSize, n)) of the selected, ordered list of length n (empty
\* when (page-1)*pageSize >= n), and the reported total is n.
C17_DateRangePageSlice ==
    (list.mode = "B" /\ list.res.err \notin {ErrDirect, ErrInverse}) =>
        /\ list.res.ok
        /\ list.total = Len(list.all)
        /\ Len(list.items) = PageLen(list.page, list.pageSize, Len(list.all))
        /\ \A i \in 1..Len(list.items) :
              list.items[i].id = list.all[(list.page - 1) * list.pageSize + i]

\* ======================================================================
\* Properties of the provider client (SpecProvider)
\* ======================================================================
\* a response row for the requested pair, in the given or the swapped roles
RowForPair(item, pair) == item.transCur = pair.quote /\ item.baseCur = pair.base
RowForInverse(item, pair) == item.transCur = pair.base /\ item.baseCur = pair.quote

\* C18: the provider's FetchRate for Pair(base, quote) returns the rateData
\* of a response row with transCur == quote and baseCur == base, and fails
\* with the rate-not-found condition only when no response row matches the
\* requested pair in either row orientation.
C18_ProviderMatchesBothOrientations ==
    \A p \in Fetchers :
        fetch[p].asked =>
            /\ fetch[p].res.ok =>
                 \E i \in 1..Len(fetch[p].resp) :
                     /\ RowForPair(fetch[p].resp[i], fetch[p].pair)
                     /\ fetch[p].value = fetch[p].resp[i].rateData
            /\ fetch[p].res.err = ErrRateNotInResponse =>
                 \A i \in 1..Len(fetch[p].resp) :
                     /\ ~RowForPair(fetch[p].resp[i], fetch[p].pair)
                     /\ ~RowForInverse(fetch[p].resp[i], fetch[p].pair)

\* ======================================================================
\* Properties of rate.NewRate (SpecNewRate) and of the rows written (Spec)
\* ======================================================================
\* the invariants of a Rate: value > 0, effective date at most one day after
\* now and not before 2000-01-01, source one of the four known ones
RateInvariants(value, date, source, now) ==
    /\ value.den > 0 /\ value.num > 0
    /\ date <= now + 1
    /\ date >= 0
    /\ source \in {"unionpay", "ecb", "openexchange", "manual"}

\* C19: NewRate returns a Rate iff value > 0, the effective date is not more
\* than 1 day after construction time, the effective date is not before
\* 2000-01-01 and the source is one of unionpay, ecb, openexchange, manual;
\* otherwise it returns a validation error and no Rate.
C19_NewRateIffValid ==
    \A p \in Fetchers :
        fetch[p].built =>
            /\ fetch[p].res.ok <=>
                  RateInvariants(fetch[p].value, fetch[p].date, fetch[p].source, Today)
            /\ ~fetch[p].res.ok =>
                  /\ fetch[p].res.err = ErrInvalidRate
                  /\ fetch[p].id = 0

\* ======================================================================
\* The empty listing (SpecQuery)
\* ======================================================================
\* without a date range, the inverse page lies past the rows of the inverse pair
InverseEmpty(q) ==
    (q.page - 1) * q.pageSize >= Cardinality(RowsOf(store, Inverse(q.pair)))

\* both FindAll calls were made and returned zero rows without error
BothReturnedNothing(q) ==
    /\ q.mode = "A" /\ q.directErr = "" /\ q.inverseErr = "" /\ ~q.totalErr
    /\ DirectEmpty(q) /\ InverseEmpty(q)

\* C20 as stated: without a date range, when both the direct and the inverse
\* orientation return zero rows without error, the query succeeds with an
\* empty item list and total 0.
C20_BothEmptyTotalZero ==
    BothReturnedNothing(list) =>
        (list.res = Ok /\ list.items = <<>> /\ list.total = 0)

\* C20 amended: without a date range, when both the direct and the inverse
\* orientation return zero rows without error, the query succeeds (it does
\* not fail with a not-found error) with an empty item list in the direct
\* orientation, and the total is the store's count of the requested pair:
\* 0 when the store holds no row of either orientation, more than 0 when the
\* page lies past the end of the stored rows.
C20_BothEmptySucceeds ==
    BothReturnedNothing(list) =>
        /\ list.tried
        /\ list.res = Ok /\ list.items = <<>> /\ ~list.inverted
        /\ list.total = Cardinality({r \in store : r.base = list.pair.base
                                                  /\ r.quote = list.pair.quote})
        /\ ({r \in store : r.base \in {list.pair.base, list.pair.quote}} = {})
              => (list.total = 0 /\ list.totalPages = 0)

\* the listing of a pair with no row stored in either orientation
C20_Witness ==
    /\ BothReturnedNothing(list)
    /\ store = {}
    /\ list.res = Ok /\ list.items = <<>> /\ list.total = 0 /\ list.tried

\* ======================================================================
\* currency.Pair: Inverse and ParsePair (SpecPair)
\* ======================================================================
\* the pairs NewPair accepts
ValidPairs ==
    {p \in [base : validCodes, quote : validCodes] : NewPair(p.base, p.quote).err = ""}

\* p.Inverse() and p.Inverse().Inverse() of a valid pair
InverseCall(p) ==
    /\ fetch[p].pc \in {"idle", "done"}
    /\ started = 0
    /\ \E pair \in ValidPairs :
          fetch' = [fetch EXCEPT ![p] =
             [IdleFetch EXCEPT !.pc = "done", !.op = "Inverse", !.pair = pair,
                               !.inv = Inverse(pair), !.back = Inverse(Inverse(pair))]]
    /\ started' = started + 1
    /\ UNCHANGED <<store, uniqueIndex, cache, nextId, clock, writes, latest, list>>

\* the strings ParsePair is tried on: up to MaxTokens pieces, each a code in
\* upper or lower case, a fragment of a code, a separator or a space
Tokens ==
    {Text("CNY"), Text("JPY"), Text("USD"), <<"c", "n", "y">>, <<"J", "P">>,
     <<"/">>, <<"-">>, <<" ">>}

RECURSIVE Join(_)
Join(ts) == IF ts = <<>> THEN <<>> ELSE Head(ts) \o Join(Tail(ts))

PairStrings == {Join(ts) : ts \in UNION {[1..n -> Tokens] : n \in 0..MaxTokens}}

\* currency.ParsePair(s)
ParsePairCall(p) ==
    /\ fetch[p].pc \in {"idle", "done"}
    /\ started = 0
    /\ \E str \in PairStrings :
          LET out == ParsePair(str)
          IN  fetch' = [fetch EXCEPT ![p] =
                 [IdleFetch EXCEPT !.pc = "done", !.op = "ParsePair", !.text = str,
                                   !.pair = out.pair,
                                   !.res = IF out.err = "" THEN Ok
                                           ELSE Failure("parse pair", out.err)]]
    /\ started' = started + 1
    /\ UNCHANGED <<store, uniqueIndex, cache, nextId, clock, writes, latest, list>>

NextPair ==
    \/ \E p \in Fetchers : InverseCall(p)
    \/ \E p \in Fetchers : ParsePairCall(p)

SpecPair == Init /\ [][NextPair]_vars

\* two valid, distinct codes
ValidDistinct(base, quote) ==
    /\ base \in {"CNY", "JPY", "USD", "EUR", "GBP", "HKD", "KRW", "SGD"}
    /\ quote \in {"CNY", "JPY", "USD", "EUR", "GBP", "HKD", "KRW", "SGD"}
    /\ base # quote

\* C21: for every valid pair p (valid codes, base # quote), p.inverse() never
\* fails, is again a pair of valid distinct codes with base and quote swapped,
\* and p.inverse().inverse().equal(p) is true.
C21_InverseInvolution ==
    \A p \in Fetchers :
        (fetch[p].op = "Inverse" /\ ValidDistinct(fetch[p].pair.base, fetch[p].pair.quote))
            => /\ fetch[p].res = Ok
               /\ fetch[p].inv.base = fetch[p].pair.quote
               /\ fetch[p].inv.quote = fetch[p].pair.base
               /\ ValidDistinct(fetch[p].inv.base, fetch[p].inv.quote)
               /\ NewPair(fetch[p].inv.base, fetch[p].inv.quote).err = ""
               /\ PairEqual(fetch[p].back, fetch[p].pair)

\* HKD/SGD inverted to SGD/HKD and back
C21_Witness ==
    \E p \in Fetchers :
        /\ fetch[p].op = "Inverse"
        /\ fetch[p].pair = [base |-> "HKD", quote |-> "SGD"]
        /\ fetch[p].inv = [base |-> "SGD", quote |-> "HKD"]
        /\ fetch[p].back = fetch[p].pair

\* the three spellings of the pair (a, b)
Spelled(text, a, b) ==
    text \in {Text(a) \o <<"/">> \o Text(b), Text(a) \o <<"-">> \o Text(b),
              Text(a) \o Text(b)}

Occurrences(text, ch) == Cardinality({i \in 1..Len(text) : text[i] = ch})

\* no split applies: the separator in use does not occur exactly once, or,
\* without a separator, the string (surrounding spaces aside) is not six
\* characters long
NoSplit(text) ==
    IF Occurrences(text, "/") > 0 THEN Occurrences(text, "/") # 1
    ELSE IF Occurrences(text, "-") > 0 THEN Occurrences(text, "-") # 1
    ELSE Len(TrimSpace(text)) # 6

\* the piece spells a valid code, in upper or lower case
SpellsCode(piece) == \E c \in validCodes : ToUpper(piece) = Text(c)

\* the pieces that hold no separator and no space
Pieces == {t \in Tokens : t \notin {<<"/">>, <<"-">>, <<" ">>}}

\* C22: for every valid pair p, ParsePair(p.String()) succeeds and equals p,
\* and the three spellings BASE/QUOTE, BASE-QUOTE and BASEQUOTE of the same
\* two valid distinct codes parse to the same pair; strings with no applicable
\* split, with an invalid code, or with equal codes fail to parse.
C22_ParsePairRoundTrip ==
    \A p \in Fetchers :
        fetch[p].op = "ParsePair" =>
            /\ \A q \in ValidPairs :
                  /\ fetch[p].text = PairText(q) =>
                        (fetch[p].res.ok /\ PairEqual(fetch[p].pair, q))
                  /\ Spelled(fetch[p].text, q.base, q.quote) =>
                        (fetch[p].res.ok /\ fetch[p].pair = q)
            /\ NoSplit(fetch[p].text) => ~fetch[p].res.ok
            /\ \A x, y \in Pieces :
                  (/\ fetch[p].text \in {x \o <<"/">> \o y, x \o <<"-">> \o y}
                   /\ (~SpellsCode(x) \/ ~SpellsCode(y)))
                      => ~fetch[p].res.ok
            /\ \A a \in validCodes : Spelled(fetch[p].text, a, a) => ~fetch[p].res.ok
            /\ fetch[p].res.ok => ValidDistinct(fetch[p].pair.base, fetch[p].pair.quote)

\* "USDJPY", the spelling without a separator, parsed to USD/JPY
C22_Witness ==
    \E p \in Fetchers :
        /\ fetch[p].op = "ParsePair"
        /\ fetch[p].text = <<"U", "S", "D", "J", "P", "Y">>
        /\ fetch[p].res.ok
        /\ fetch[p].pair = [base |-> "USD", quote |-> "JPY"]

\* ======================================================================
\* Properties of the HTTP rate handler (SpecHTTP)
\* ======================================================================
\* a GetByDate request that reached the query handler and was answered, the
\* store calls it made all answering
AnsweredByDate(l) ==
    /\ l.via = "GetByDate" /\ l.pc = "responded"
    /\ l.http.status # 400
    /\ l.direct # "store error" /\ l.inverse # "store error"

\* the stored rows of the requested pair on the requested day
RowsOnDate(l) ==
    {r \in store : r.base = l.pair.base /\ r.quote = l.pair.quote /\ r.date = l.date}

\* C23: GET /api/rates with pair and date (RateHandler.GetByDate) returns the
\* stored exchange rate for that pair on that specific date whenever such a
\* row exists, and answers not-found only when no row exists for that pair
\* and date.
C23_GetByDateReturnsRowOfDate ==
    \A p \in Readers :
        AnsweredByDate(latest[p]) =>
            /\ RowsOnDate(latest[p]) # {} =>
                  /\ latest[p].http.status = 200
                  /\ \E r \in RowsOnDate(latest[p]) :
                        /\ latest[p].dto.id = r.id
                        /\ latest[p].dto.rate = r.value
                        /\ latest[p].dto.effectiveDate = r.date
            /\ latest[p].http.status = 404 => RowsOnDate(latest[p]) = {}

\* a GetLatest request that reached the query handler and was answered
AnsweredLatest(l) == l.via = "GetLatest" /\ l.pc = "responded" /\ l.http.status # 400

\* C25: at the HTTP boundary of GetLatest, a not-found outcome of the query
\* maps to a "no data" (not found) response, while a store error (or any
\* other non-not-found failure) maps to a generic failure response distinct
\* from the not-found response.
C25_GetLatestErrorMapping ==
    \A p \in Readers :
        AnsweredLatest(latest[p]) =>
            /\ latest[p].res.err = "rate not found" =>
                  latest[p].http = [status |-> 404, code |-> "NOT_FOUND"]
            /\ (~latest[p].res.ok /\ latest[p].res.err # "rate not found") =>
                  /\ latest[p].http.status \notin {200, 404}
                  /\ latest[p].http.code \notin {"", "NOT_FOUND"}

\* C26: GET /api/rates/list treats the pair parameter as an optional filter:
\* when pair is omitted, the paginated result contains the stored rates of
\* all pairs (no filtering by base/quote currency) and the total counts all
\* stored rows.
C26_ListWithoutPairListsAll ==
    (list.via = "List" /\ ~list.given /\ list.res.ok) =>
        /\ list.http.status = 200
        /\ list.total = Cardinality(store)
        /\ Len(list.items) =
              PageLen(list.page, list.pageSize, Cardinality(store))
        /\ \A i \in 1..Len(list.items) : \E r \in store : r.id = list.items[i].id

\* ======================================================================
\* The worker's fetch-matrix command (SpecMatrix)
\* ======================================================================
\* the entries of --currencies after the upper-casing and the split at ","
CurrencyArgs == {Text("CNY"), Text("JPY"), <<"X", "X", "X">>}

CurrencyLists == UNION {[1..n -> CurrencyArgs] : n \in 1..MaxCurrencies}

\* the dates to fetch: --date, --start/--end, or today
DateLists == {<<d>> : d \in Dates} \cup {<<1, Today>>}

\* "Validate currencies": the entries NewCode accepts, in order
RECURSIVE ValidCurrencies(_)
ValidCurrencies(entries) ==
    IF entries = <<>> THEN <<>>
    ELSE IF NewCode(Head(entries)).err # "" THEN ValidCurrencies(Tail(entries))
    ELSE <<NewCode(Head(entries)).code>> \o ValidCurrencies(Tail(entries))

\* "Generate all currency pairs": the index pairs (i, j), i # j, in the order
\* of the two nested loops
RECURSIVE IndexPairs(_, _, _)
IndexPairs(n, i, j) ==
    IF i > n THEN <<>>
    ELSE IF j > n THEN IndexPairs(n, i + 1, 1)
    ELSE IF i = j THEN IndexPairs(n, i, j + 1)
    ELSE <<[i |-> i, j |-> j]>> \o IndexPairs(n, i, j + 1)

\* MustNewPair panics for some generated index pair
MatrixPanics(codes) ==
    \E k \in 1..Len(IndexPairs(Len(codes), 1, 1)) :
        LET ij == IndexPairs(Len(codes), 1, 1)[k]
        IN  NewPair(codes[ij.i], codes[ij.j]).err # ""

MatrixPairs(codes) ==
    LET ijs == IndexPairs(Len(codes), 1, 1)
    IN  [k \in 1..Len(ijs) |-> NewPair(codes[ijs[k].i], codes[ijs[k].j]).pair]

\* "for _, date := range dates { for _, pair := range pairs {": the commands
\* in the order they are handled
RECURSIVE MatrixCommands(_, _)
MatrixCommands(dates, pairs) ==
    IF dates = <<>> THEN <<>>
    ELSE [k \in 1..Len(pairs) |-> [pair |-> pairs[k], date |-> Head(dates)]]
            \o MatrixCommands(Tail(dates), pairs)

ErrTooFewCurrencies == "need at least 2 valid currencies"
ErrCompletedWithErrors == "completed with errors"

\* handler.Handle(ctx, cmd) is entered for the first command of the queue
MatrixHandle(f, queue) ==
    [IdleFetch EXCEPT !.pc = "exists", !.pair = Head(queue).pair, !.date = Head(queue).date,
                      !.matrix = TRUE, !.force = f.force, !.currencies = f.currencies,
                      !.pairs = f.pairs, !.queue = Tail(queue),
                      !.success = f.success, !.errors = f.errors, !.skipped = f.skipped]

\* the command ends: it returns an error when a command failed
MatrixReturn(f) ==
    [f EXCEPT !.finished = TRUE,
              !.res = IF f.errors > 0 THEN Failure("fetch-matrix", ErrCompletedWithErrors)
                      ELSE Ok]

\* runFetchMatrix up to the first command: the currencies are validated, the
\* pairs generated (MustNewPair) and the dates determined.
MatrixStart(p) ==
    /\ fetch[p].pc \in {"idle", "done"}
    /\ started = 0
    /\ \E entries \in CurrencyLists, dates \in DateLists, force \in BOOLEAN :
          LET codes == ValidCurrencies(entries)
              f == [IdleFetch EXCEPT !.pc = "done", !.matrix = TRUE, !.force = force,
                                     !.currencies = entries]
          IN  fetch' = [fetch EXCEPT ![p] =
                IF Len(entries) < 2 \/ Len(codes) < 2
                  THEN [f EXCEPT !.finished = TRUE,
                                 !.res = Failure("fetch-matrix", ErrTooFewCurrencies)]
                ELSE IF MatrixPanics(codes)
                  THEN [f EXCEPT !.finished = TRUE, !.panicked = TRUE,
                                 !.res = Failure("panic", ErrSameCurrency)]
                ELSE MatrixHandle([f EXCEPT !.pairs = MatrixPairs(codes)],
                                  MatrixCommands(dates, MatrixPairs(codes)))]
    /\ started' = started + 1
    /\ UNCHANGED <<store, uniqueIndex, cache, nextId, clock, writes, latest, list>>

\* The loop body after handler.Handle returned err: the outcome is tallied
\* (skipped when the error says "already exists" and --force is not set),
\* then the next command is handled or the command ends.
MatrixNext(p) ==
    /\ fetch[p].matrix /\ fetch[p].pc = "done" /\ ~fetch[p].finished
    /\ LET f == fetch[p]
           isSkip == ~f.res.ok /\ f.res.err = "already exists" /\ ~f.force
           tallied == [f EXCEPT !.success = IF f.res.ok THEN @ + 1 ELSE @,
                                !.skipped = IF isSkip THEN @ + 1 ELSE @,
                                !.errors = IF ~f.res.ok /\ ~isSkip THEN @ + 1 ELSE @]
       IN  fetch' = [fetch EXCEPT ![p] =
              IF f.queue = <<>> THEN MatrixReturn(tallied)
              ELSE MatrixHandle(tallied, f.queue)]
    /\ UNCHANGED <<store, uniqueIndex, cache, nextId, clock, started, writes, latest, list>>

NextMatrix ==
    \/ \E p \in Fetchers : MatrixStart(p)
    \/ \E p \in Fetchers : MatrixNext(p)
    \/ \E p \in Fetchers : FetchExists(p)
    \/ \E p \in Fetchers : FetchProvider(p)
    \/ \E p \in Fetchers : FetchCreateSelect(p)
    \/ \E p \in Fetchers : FetchCreateWrite(p)
    \/ \E p \in Fetchers : FetchCacheDelete(p)

SpecMatrix == Init /\ [][NextMatrix]_vars

\* a command of a fetch-matrix run with --force has been handled, its
\* existence check answering
ForcedCommandHandled(f) ==
    /\ f.matrix /\ f.force /\ f.pc = "done" /\ ~f.finished
    /\ f.res.stage # "check rate existence"

\* C24: running fetch-matrix with --force refetches from the provider for
\* every generated (pair, date) even if a row for it already exists in the
\* store (the provider is called and the result is upserted).
C24_ForceRefetches ==
    \A p \in Fetchers :
        ForcedCommandHandled(fetch[p]) =>
            /\ fetch[p].calls = 1
            /\ fetch[p].res.ok => fetch[p].wrote > 0

\* the number of entries that are valid currency codes
ValidCount(entries) ==
    Cardinality({i \in 1..Len(entries) :
                    \E c \in {"CNY", "JPY", "USD", "EUR", "GBP", "HKD", "KRW", "SGD"} :
                        entries[i] = Text(c)})

\* C29: for every --currencies list that contains at least two valid currency
\* codes (including lists in which a code is repeated), fetch-matrix
\* generates only pairs whose base and quote differ and never reaches the
\* panic in MustNewPair.
C29_MatrixNeverPanics ==
    \A p \in Fetchers :
        (fetch[p].matrix /\ ValidCount(fetch[p].currencies) >= 2) =>
            /\ ~fetch[p].panicked
            /\ fetch[p].res.stage # "panic"
            /\ \A k \in 1..Len(fetch[p].pairs) :
                  ValidDistinct(fetch[p].pairs[k].base, fetch[p].pairs[k].quote)

\* ======================================================================
\* The listing across pages (SpecQuery)
\* ======================================================================
\* a List query without a date range that succeeded, every store call answering
ListedCleanly(q) ==
    /\ q.mode = "A" /\ q.res.ok
    /\ q.directErr = "" /\ q.inverseErr = "" /\ ~q.countErrs /\ ~q.totalErr

\* the same query for another page, over the same store, every store call
\* answering
OtherPage(q, page) ==
    HandleList(store,
        [IdleList EXCEPT !.mode = "A", !.pair = q.pair, !.page = page,
                         !.pageSize = q.pageSize],
        FALSE, FALSE, FALSE, FALSE, FALSE)

\* C28: for a fixed store content, requested pair and pageSize, List mode A
\* selects the same orientation and reports the same total for every page
\* number >= 1 (the direct/inverse decision does not depend on which page is
\* requested).
C28_SelectionIndependentOfPage ==
    ListedCleanly(list) =>
        \A page \in 1..MaxPage :
            /\ OtherPage(list, page).res.ok
            /\ OtherPage(list, page).inverted = list.inverted
            /\ OtherPage(list, page).total = list.total

\* ======================================================================
\* The frame of the Fetch Command's cache invalidation (Spec)
\* ======================================================================
\* C30: a successful Fetch Command for pair P deletes only the cache key
\* "latest:" + P.String(); every other cache entry, in particular the entry
\* under "latest:" + P.inverse().String() that GetLatest may have derived from
\* P's rows by inversion, is left unchanged by the command.
C30_FetchDeletesOnlyItsKey ==
    /\ [][\A f \in Fetchers :
            (fetch[f].pc = "cacheDel" /\ fetch'[f].pc = "done")
              => /\ fetch'[f].res.ok
                 /\ fetch'[f].deleted =>
                       cache'["latest:" \o fetch[f].pair.base \o "/" \o fetch[f].pair.quote]
                           = NoEntry
                 /\ \A k \in CacheKeys :
                       k # "latest:" \o fetch[f].pair.base \o "/" \o fetch[f].pair.quote
                           => cache'[k] = cache[k]]_vars
    /\ [][\A f \in Fetchers :
            (fetch[f].pc \in {"exists", "provider", "select", "write"}
             /\ fetch'[f] # fetch[f])
              => cache' = cache]_vars

\* the command stored a day-2 rate for P and deleted P's key, while the key of
\* the inverse pair still holds the response derived from P's day-1 row
C30_Witness ==
    \E f \in Fetchers :
        /\ StoredAndInvalidated(f)
        /\ cache[CacheKey(fetch[f].pair)] = NoEntry
        /\ cache[CacheKey(Inverse(fetch[f].pair))] # NoEntry
        /\ LET kept == Unmarshal(cache[CacheKey(Inverse(fetch[f].pair))].data)
           IN  /\ kept.pair = PairString(Inverse(fetch[f].pair))
               /\ kept.effectiveDate < fetch[f].date
               /\ \E r \in RowsOf(store, fetch[f].pair) :
                     r.id = kept.id /\ IsReciprocal(kept.rate, r.value)

\* ======================================================================
\* Reads after a completed Fetch Command (SpecRepeat)
\* ======================================================================
\* command f stored the rate that is now the latest of its pair, deleted the
\* pair's cache key and completed
StoredNewLatest(f) ==
    /\ StoredAndInvalidated(f)
    /\ \A r \in store :
          (r.base = fetch[f].pair.base /\ r.quote = fetch[f].pair.quote)
              => r.date <= fetch[f].date

\* reader p's query of f's pair started after f completed, and has returned
\* a response
ReadAfter(f, p) ==
    /\ latest[p].pair = fetch[f].pair
    /\ latest[p].pc = "done" /\ latest[p].res.ok
    /\ latest[p].startedAt[CacheKey(fetch[f].pair)] > fetch[f].doneAt

\* the response shows a stored row of the pair with the most recent date
IsCurrentLatest(dto, pair) ==
    \E r \in store :
        /\ r.base = pair.base /\ r.quote = pair.quote
        /\ \A o \in store : (o.base = pair.base /\ o.quote = pair.quote) => o.date <= r.date
        /\ dto.id = r.id /\ dto.rate = r.value /\ dto.effectiveDate = r.date

\* C27: once a Fetch Command that stored a new latest rate for pair
\* P has completed, every GetLatest(P) that starts afterwards returns the
\* store's current latest rate for P, even if another GetLatest(P) was
\* executing concurrently with that Fetch.
C27_ReadsAfterFetchAreCurrent ==
    \A f \in Fetchers, p \in Readers :
        (StoredNewLatest(f) /\ ReadAfter(f, p))
            => IsCurrentLatest(latest[p].dto, fetch[f].pair)

====
